---- MODULE Spec2Model ----
(***************************************************************************)
(* Model of gmail-agent's adaptive concurrent task pipeline:               *)
(*   - AdaptiveRateLimiter and withRetry (src/utils/retry.ts)              *)
(*   - the sync queue repository (src/database/connection.ts)              *)
(*   - the batch claim made on the queue by its callers                    *)
(*   - classifyEmailsParallel (src/ai/parallel-classifier.ts)              *)
(*   - BackgroundSyncManager (src/gmail/html-to-text.test.ts, which holds  *)
(*     the background sync source)                                         *)
(* Each component has its own specification; the variables of the other    *)
(* components stay at their idle values.                                   *)
(***************************************************************************)
EXTENDS Integers, Sequences, FiniteSets, TLC

Min(a, b) == IF a <= b THEN a ELSE b

Max(a, b) == IF a >= b THEN a ELSE b

(***************************************************************************)
(* Bounds of the model                                                     *)
(***************************************************************************)
\* longest streak of successes or errors that is explored
MaxStreak == 7

\* number of past calls remembered in `calls`
HistLen == 5

\* constructor options that are explored (the constructor validates none)
MaxConcurrencyOptions == {10, 23}

MinConcurrencyOptions == {1, 5}

InitialConcurrencyOptions == {3, 8, 30}

SuccessThresholdOptions == {1, 2, 3}

\* largest maxRetries option that is explored
MaxRetriesBound == 2

\* number of rows that are ever inserted into the queue
MaxInserts == 2

\* longest id list passed to addToSyncQueue
MaxIds == 2

\* number of rows that are ever inserted while the statistics scenario plays
StatsInserts == 4

\* the clock advances in steps of TickMinutes, up to MaxNow
TickMinutes == 5

MaxNow == 10

GmailIds == {"m1", "m2"}

Users == {"u1", "u2"}

Accounts == {"acc1"}

ErrorMessages == {"Error"}

\* the email lists and classifier lists classifyEmailsParallel is called with
EmailLists == {<<>>, <<"e1">>, <<"e1", "e2">>, <<"e1", "e2", "e3">>}

EmailIds == {"e1", "e2", "e3"}

ClassifierIdSets == {{}, {"c1"}}

\* the concurrency limits of the worker pools, scaled down to the explored
\* numbers of tasks: PoolMax stands for MAX_CONCURRENT (30) and
\* MAX_CONCURRENT_FETCHES (50), PoolMin for MIN_CONCURRENT and
\* MIN_CONCURRENT_FETCHES (5)
PoolMax == 2

PoolMin == 1

\* the successThreshold of the classifier's limiter (10 in the defaults),
\* scaled down likewise
PoolThresholds == {1}


\* processQueue's BATCH_SIZE (50), scaled down likewise
DrainBatch == 2

\* number of list pages a run is answered with
MaxPages == 2

\* number of startSync, resumeSync and stop calls made on a manager
MaxCalls == 2

\* number of faulty answers of the Gmail service: rejections, and messages
\* without id or threadId
MaxFaults == 2

\* faulty answers of the Gmail service in the drain of one item
RetryFaults == 3

(***************************************************************************)
(* AdaptiveRateLimiter                                                     *)
(***************************************************************************)
VARIABLES
    currentConcurrency,     \* AdaptiveRateLimiter.currentConcurrency
    minConcurrency,         \* AdaptiveRateLimiter.minConcurrency
    maxConcurrency,         \* AdaptiveRateLimiter.maxConcurrency
    consecutiveSuccesses,   \* AdaptiveRateLimiter.consecutiveSuccesses
    consecutiveErrors,      \* AdaptiveRateLimiter.consecutiveErrors
    successThreshold,       \* AdaptiveRateLimiter.successThreshold
    calls,                  \* the last HistLen calls made on the limiter, oldest first
    successRun,             \* recordSuccess calls since the last error, increase, reset or construction
    errorRun                \* recordError(false) calls since the last other call or construction;
                            \* -1 while a recordError(true) is part of the current error streak

limiterVars == <<currentConcurrency, minConcurrency, maxConcurrency,
                 consecutiveSuccesses, consecutiveErrors, successThreshold,
                 calls, successRun, errorRun>>

(***************************************************************************)
(* withRetry                                                               *)
(***************************************************************************)
VARIABLES
    options,        \* the RetryOptions of the call, defaults filled in
    retryPc,        \* "start", "awaitFn", "sleeping", "resolved", "rejected"
    attempts,       \* withRetry's local `attempts`
    totalDelayMs,   \* withRetry's local `totalDelayMs`
    thrown,         \* the errors fn has thrown so far, oldest first
    fnCalls,        \* number of invocations of fn
    onRetryLog,     \* the <<attempt, delayMs, error>> arguments onRetry was called with
    sleeps,         \* the delays sleep() was called with
    settled         \* <<>> while pending, then the RetryResult or the rejection value

retryVars == <<options, retryPc, attempts, totalDelayMs, thrown, fnCalls,
               onRetryLog, sleeps, settled>>

(***************************************************************************)
(* Sync queue repository                                                   *)
(***************************************************************************)
VARIABLES
    syncQueue,      \* the rows of table sync_queue
    nextId,         \* number of rows inserted so far, plus one: the next row id
    now,            \* the clock, in minutes
    queueCall       \* the last repository call: its name, arguments and return value

queueVars == <<syncQueue, nextId, now, queueCall>>

(***************************************************************************)
(* Callers of the batch claim                                              *)
(***************************************************************************)
VARIABLES
    callers         \* per caller: pc "idle", "selected" (getPendingSyncItems returned)
                    \* or "claimed" (markSyncItemSyncing returned), and the ids of its rows

claimVars == <<callers>>

(***************************************************************************)
(* classifyEmailsParallel                                                  *)
(***************************************************************************)
VARIABLES
    classifyPc,     \* "idle" (not called), "called", "running" (await Promise.race), "returned"
    emails,         \* the ids of the `emails` argument, in order
    classifierIds,  \* the ids of the `classifiers` argument
    emailQueue,     \* the emails not started yet
    inProgress,     \* the emails in flight, each with the `attempts` of its withRetry call
    results,        \* the ClassificationResults pushed so far
    answers,        \* per email what ended its classification: kind "none" so far,
                    \* "object" with the object the service answered, or "error"
    timers,         \* the emails whose timeout timer is armed
    emailProgress,  \* the <<emailId, status>> of the onEmailProgress calls, oldest first
    batchComplete,  \* the <<completed, total>> of the onBatchComplete calls, oldest first
    limiters,       \* number of deps.createRateLimiter() calls
    generated       \* the emails deps.generateObject was called for

classifierVars == <<classifyPc, emails, classifierIds, emailQueue, inProgress,
                    results, answers, timers, emailProgress, batchComplete,
                    limiters, generated>>

(***************************************************************************)
(* BackgroundSyncManager                                                   *)
(***************************************************************************)
VARIABLES
    isRunning,      \* BackgroundSyncManager.isRunning
    shouldStop,     \* BackgroundSyncManager.shouldStop
    progress,       \* BackgroundSyncManager.progress
    runs,           \* the startSync and resumeSync calls that went past the isRunning
                    \* check, in the order of the calls, each with its locals
    fetches,        \* the fetchAndProcessEmail calls in flight
    store,          \* the gmailIds of the emails written by upsertEmails
    callsLeft,      \* number of startSync, resumeSync and stop calls still to be made
    faultsLeft,     \* number of faulty answers the Gmail service still gives
    getCalls        \* per gmailId, the number of messages.get calls answered for it
                    \* since its row was inserted

managerVars == <<isRunning, shouldStop, progress, runs, fetches, store, callsLeft,
                 faultsLeft, getCalls>>

\* the variables of the components that use the limiter, withRetry and the queue
driverVars == <<claimVars, classifierVars, managerVars>>

vars == <<limiterVars, retryVars, queueVars, claimVars, classifierVars, managerVars>>

\* the part of the limiter's state that only records its past calls
limiterHistory == <<calls, successRun, errorRun>>

\* the call history after one more call
Remember(call) ==
    LET all == Append(calls, call)
    IN  IF Len(all) <= HistLen THEN all
        ELSE SubSeq(all, Len(all) - HistLen + 1, Len(all))

LastCall == IF Len(calls) = 0 THEN "new" ELSE calls[Len(calls)]

\* constructor: no option is validated or clamped
LimiterInit ==
    /\ maxConcurrency \in MaxConcurrencyOptions
    /\ minConcurrency \in MinConcurrencyOptions
    /\ currentConcurrency \in InitialConcurrencyOptions \cup {maxConcurrency}
    /\ successThreshold \in SuccessThresholdOptions
    /\ consecutiveSuccesses = 0
    /\ consecutiveErrors = 0
    /\ calls = <<>>
    /\ successRun = 0
    /\ errorRun = 0

getConcurrency == currentConcurrency

IncreasedConcurrency_Uncapped(c) == c + 5

\* Math.min(currentConcurrency + 5, maxConcurrency)
IncreasedConcurrency(c) == Min(c + 5, maxConcurrency)

HalvedConcurrency_Unclamped(c) == c \div 2

\* Math.max(Math.floor(currentConcurrency / 2), minConcurrency)
HalvedConcurrency(c) == Max(c \div 2, minConcurrency)

\* Math.max(currentConcurrency - 5, minConcurrency)
ReducedConcurrency(c) == Max(c - 5, minConcurrency)

\* recordSuccess: this.consecutiveErrors = 0
ErrorsAfterSuccess_Kept(n) == n

ErrorsAfterSuccess(n) == 0

\* the state change of recordSuccess
recordSuccessBody ==
    /\ consecutiveErrors' = ErrorsAfterSuccess(consecutiveErrors)
    /\ IF consecutiveSuccesses + 1 >= successThreshold
          /\ currentConcurrency < maxConcurrency
       THEN /\ currentConcurrency' = IncreasedConcurrency(currentConcurrency)
            /\ consecutiveSuccesses' = 0
       ELSE /\ currentConcurrency' = currentConcurrency
            /\ consecutiveSuccesses' = consecutiveSuccesses + 1
    /\ UNCHANGED <<minConcurrency, maxConcurrency, successThreshold>>

recordSuccess ==
    /\ consecutiveSuccesses < MaxStreak
    /\ recordSuccessBody
    /\ calls' = Remember("recordSuccess")
    /\ successRun' = IF currentConcurrency' > currentConcurrency THEN 0 ELSE successRun + 1
    /\ errorRun' = 0

\* the state change of recordError
recordErrorBody(isRateLimit) ==
    /\ consecutiveSuccesses' = 0
    /\ IF isRateLimit
       THEN /\ currentConcurrency' = HalvedConcurrency(currentConcurrency)
            /\ consecutiveErrors' = consecutiveErrors + 1
       ELSE IF consecutiveErrors + 1 >= 3
       THEN /\ currentConcurrency' = ReducedConcurrency(currentConcurrency)
            /\ consecutiveErrors' = consecutiveErrors + 1
       ELSE /\ currentConcurrency' = currentConcurrency
            /\ consecutiveErrors' = consecutiveErrors + 1
    /\ UNCHANGED <<minConcurrency, maxConcurrency, successThreshold>>

recordError(isRateLimit) ==
    /\ consecutiveErrors < MaxStreak
    /\ recordErrorBody(isRateLimit)
    /\ calls' = Remember(IF isRateLimit THEN "recordError(true)" ELSE "recordError(false)")
    /\ successRun' = 0
    /\ errorRun' = IF isRateLimit \/ errorRun = -1 THEN -1 ELSE errorRun + 1

reset_KeepsErrors ==
    /\ currentConcurrency' = maxConcurrency
    /\ consecutiveSuccesses' = 0
    /\ calls' = Remember("reset")
    /\ successRun' = 0
    /\ errorRun' = 0
    /\ UNCHANGED <<minConcurrency, maxConcurrency, successThreshold, consecutiveErrors>>

\* reset(): currentConcurrency = maxConcurrency, both counters = 0
reset ==
    /\ currentConcurrency' = maxConcurrency
    /\ consecutiveSuccesses' = 0
    /\ consecutiveErrors' = 0
    /\ calls' = Remember("reset")
    /\ successRun' = 0
    /\ errorRun' = 0
    /\ UNCHANGED <<minConcurrency, maxConcurrency, successThreshold>>

(***************************************************************************)
(* Error values.  An error is a record: kind is what `typeof`/`instanceof` *)
(* can see of it, message is the set of the known phrases its lower-cased  *)
(* message contains, code is `err.code ?? err.status ?? err.statusCode`    *)
(* with 0 for undefined.                                                   *)
(***************************************************************************)
RATE_LIMIT_CODES == {429, 403, 503}

RATE_LIMIT_MESSAGES == {"quota", "rate limit", "too many requests", "resource exhausted"}

NetworkErrors == {"network", "timeout", "econnreset", "econnrefused", "socket hang up"}

RetryableCodes == {429, 500, 502, 503, 504}

ErrorOf(message, code) == [kind |-> "Error", message |-> message, code |-> code]

ObjectOf(code) == [kind |-> "object", message |-> {}, code |-> code]

NullValue == [kind |-> "null", message |-> {}, code |-> 0]

UndefinedValue == [kind |-> "undefined", message |-> {}, code |-> 0]

\* what reading a property of null or undefined throws
TypeErrorValue == [kind |-> "Error", message |-> {"cannot read properties"}, code |-> 0]

\* the values fn may reject with
ErrorValues ==
    { ErrorOf({"rate limit"}, 0), ErrorOf({"timeout"}, 0), ErrorOf({"fatal"}, 0),
      ObjectOf(503), ObjectOf(404), NullValue, UndefinedValue }

\* the errors the remote services reject with: a rate limit, a network
\* error, and an error that is not retried
ServiceErrors == {ErrorOf({"rate limit"}, 0), ErrorOf({"timeout"}, 0), ErrorOf({"fatal"}, 0)}

\* `err.code` on null or undefined throws a TypeError
ReadingCodeThrows(e) == e.kind \in {"null", "undefined"}

\* isRateLimitError, for the values on which it returns
isRateLimitError(e) ==
    \/ e.kind = "Error" /\ e.message \cap RATE_LIMIT_MESSAGES # {}
    \/ e.code # 0 /\ e.code \in RATE_LIMIT_CODES

\* isRateLimitError throws instead of returning
isRateLimitErrorThrows(e) ==
    /\ ~(e.kind = "Error" /\ e.message \cap RATE_LIMIT_MESSAGES # {})
    /\ ReadingCodeThrows(e)

\* defaultIsRetryable, for the values on which it returns
defaultIsRetryable(e) ==
    \/ isRateLimitError(e)
    \/ e.kind = "Error" /\ e.message \cap NetworkErrors # {}
    \/ e.code # 0 /\ e.code \in RetryableCodes

\* defaultIsRetryable throws instead of returning
defaultIsRetryableThrows(e) == isRateLimitErrorThrows(e)

\* the isRetryable option: the default, or a custom predicate
IsRetryablePolicies == {"default", "always", "never"}

isRetryable(policy, e) ==
    CASE policy = "default" -> defaultIsRetryable(e)
      [] policy = "always"  -> TRUE
      [] policy = "never"   -> FALSE

isRetryableThrows(policy, e) == policy = "default" /\ defaultIsRetryableThrows(e)

RECURSIVE Pow(_, _)
Pow(b, n) == IF n = 0 THEN 1 ELSE b * Pow(b, n - 1)

cappedDelay_Uncapped(attempt, initialMs, maxMs, multiplier) ==
    initialMs * Pow(multiplier, attempt - 1)

\* calculateBackoff without the jitter
cappedDelay(attempt, initialMs, maxMs, multiplier) ==
    Min(initialMs * Pow(multiplier, attempt - 1), maxMs)

\* Math.random() * jitterMs, in whole milliseconds
Jitters(jitterMs) == 0 .. Max(jitterMs - 1, 0)

\* the RetryOptions that are explored
RetryOptionsExplored ==
    [ maxRetries : 0 .. MaxRetriesBound,
      isRetryable : IsRetryablePolicies,
      initialBackoffMs : {1},
      maxBackoffMs : {3},
      backoffMultiplier : {2},
      jitterMs : {0, 2} ]

RetryInit ==
    /\ options \in RetryOptionsExplored
    /\ retryPc = "start"
    /\ attempts = 0
    /\ totalDelayMs = 0
    /\ thrown = <<>>
    /\ fnCalls = 0
    /\ onRetryLog = <<>>
    /\ sleeps = <<>>
    /\ settled = <<>>

\* attempts <= maxRetries
RetriesLeft_OffByOne(n) == n < options.maxRetries

RetriesLeft(n) == n <= options.maxRetries

\* loop top: attempts++ and the call of fn, at the start and after each sleep
InvokeFn ==
    /\ retryPc \in {"start", "sleeping"}
    /\ attempts' = attempts + 1
    /\ fnCalls' = fnCalls + 1
    /\ retryPc' = "awaitFn"
    /\ UNCHANGED <<options, totalDelayMs, thrown, onRetryLog, sleeps, settled>>

\* fn resolves: return { attempts, result, totalDelayMs }
FnResolves ==
    /\ retryPc = "awaitFn"
    /\ retryPc' = "resolved"
    /\ settled' = <<[attempts |-> attempts, result |-> "value", totalDelayMs |-> totalDelayMs]>>
    /\ UNCHANGED <<options, attempts, totalDelayMs, thrown, fnCalls, onRetryLog, sleeps>>

onRetry_FromZero(log, attempt, delayMs, error) == Append(log, <<attempt - 1, delayMs, error>>)

\* onRetry?.(attempts, delayMs, error), with log the calls made so far
onRetry(log, attempt, delayMs, error) == Append(log, <<attempt, delayMs, error>>)

\* fn rejects with error: the catch block, up to the rethrow or the sleep
FnRejects(error) ==
    /\ retryPc = "awaitFn"
    /\ thrown' = Append(thrown, error)
    /\ IF RetriesLeft(attempts) /\ isRetryableThrows(options.isRetryable, error)
       THEN \* isRetryable itself throws, out of the catch block
            /\ retryPc' = "rejected"
            /\ settled' = <<TypeErrorValue>>
            /\ UNCHANGED <<totalDelayMs, onRetryLog, sleeps>>
       ELSE IF ~(RetriesLeft(attempts) /\ isRetryable(options.isRetryable, error))
       THEN /\ retryPc' = "rejected"
            /\ settled' = <<error>>
            /\ UNCHANGED <<totalDelayMs, onRetryLog, sleeps>>
       ELSE \E jitter \in Jitters(options.jitterMs) :
               LET delayMs == cappedDelay(attempts, options.initialBackoffMs,
                                          options.maxBackoffMs, options.backoffMultiplier)
                              + jitter
               IN  /\ onRetryLog' = onRetry(onRetryLog, attempts, delayMs, error)
                   /\ totalDelayMs' = totalDelayMs + delayMs
                   /\ sleeps' = Append(sleeps, delayMs)
                   /\ retryPc' = "sleeping"
                   /\ UNCHANGED settled
    /\ UNCHANGED <<options, attempts, fnCalls>>

(***************************************************************************)
(* Sync queue repository.  A row is a record                               *)
(*   [id, gmailId, userId, accountId, status, retryCount, lastError,       *)
(*    createdAt, updatedAt, failures]                                      *)
(* and the table holds at most one row per (gmailId, userId).  Column      *)
(* syncedAt, which markSyncItemSynced stamps and nothing reads, is left    *)
(* out; failures is no column: it counts the markSyncItemFailed calls made *)
(* on the row since it was inserted.                                       *)
(***************************************************************************)
\* SQL NULL in the lastError column
NullText == "<null>"

BATCH_SIZE == 100

\* the retry count at which markSyncItemFailed deletes the row
MaxRetryCount == 5

\* 5 * 60 * 1000 ms
StaleMinutes == 5

QueueInit ==
    /\ syncQueue = {}
    /\ nextId = 1
    /\ now = 0
    /\ queueCall = [op |-> "none"]

\* the row with this unique key, as a set of zero or one rows
RowsOf(table, gmailId, userId) ==
    {r \in table : r.gmailId = gmailId /\ r.userId = userId}

\* the row a default-valued insert creates
NewRow(id, userId, accountId, gmailId) ==
    [id |-> id, gmailId |-> gmailId, userId |-> userId, accountId |-> accountId,
     status |-> "pending", retryCount |-> 0, lastError |-> NullText,
     createdAt |-> now, updatedAt |-> now, failures |-> 0]

\* a conflicting entry overwrites nothing and is not returned
OnConflict_Counted(table, id, userId, accountId, gmailId) ==
    [table |-> table, inserted |-> 1, nextId |-> id]

\* onConflictDoNothing
OnConflict(table, id, userId, accountId, gmailId) ==
    [table |-> table, inserted |-> 0, nextId |-> id]

\* insert(syncQueue).values(entries).onConflictDoNothing().returning(), entries
\* i .. Len(entries) of one statement; the result is the table, the number of
\* returned rows and the next free id
RECURSIVE InsertValues(_, _, _, _, _, _)
InsertValues(table, id, userId, accountId, entries, i) ==
    IF i > Len(entries) THEN [table |-> table, inserted |-> 0, nextId |-> id]
    ELSE LET one == IF RowsOf(table, entries[i], userId) # {}
                    THEN OnConflict(table, id, userId, accountId, entries[i])
                    ELSE [table |-> table \cup {NewRow(id, userId, accountId, entries[i])},
                          inserted |-> 1, nextId |-> id + 1]
             rest == InsertValues(one.table, one.nextId, userId, accountId, entries, i + 1)
         IN  [table |-> rest.table, inserted |-> one.inserted + rest.inserted,
              nextId |-> rest.nextId]

\* the batch loop of addToSyncQueue, from index i on
RECURSIVE AddBatches(_, _, _, _, _, _)
AddBatches(table, id, userId, accountId, gmailIds, i) ==
    IF i > Len(gmailIds) THEN [table |-> table, inserted |-> 0, nextId |-> id]
    ELSE LET batch == SubSeq(gmailIds, i, Min(i + BATCH_SIZE - 1, Len(gmailIds)))
             batchResults == InsertValues(table, id, userId, accountId, batch, 1)
             rest == AddBatches(batchResults.table, batchResults.nextId, userId, accountId,
                                gmailIds, i + BATCH_SIZE)
         IN  [table |-> rest.table, inserted |-> batchResults.inserted + rest.inserted,
              nextId |-> rest.nextId]

\* the id lists that are explored, duplicates included
IdLists(gmailIdSet) == UNION {[1 .. n -> gmailIdSet] : n \in 0 .. MaxIds}

\* addToSyncQueue while no more than maxInserts rows have ever been inserted
addToSyncQueueUpTo(maxInserts, userId, accountId, gmailIds) ==
    LET r == IF Len(gmailIds) = 0
             THEN [table |-> syncQueue, inserted |-> 0, nextId |-> nextId]
             ELSE AddBatches(syncQueue, nextId, userId, accountId, gmailIds, 1)
    IN  /\ r.nextId <= maxInserts + 1
        /\ syncQueue' = r.table
        /\ nextId' = r.nextId
        /\ queueCall' = [op |-> "addToSyncQueue", userId |-> userId,
                         gmailIds |-> {gmailIds[i] : i \in 1 .. Len(gmailIds)},
                         ret |-> r.inserted]
        /\ UNCHANGED now

addToSyncQueue(userId, accountId, gmailIds) ==
    addToSyncQueueUpTo(MaxInserts, userId, accountId, gmailIds)

\* update ... set status = 'syncing', updatedAt = now where id in ids
markSyncItemSyncing(ids) ==
    /\ ids # {}
    /\ syncQueue' = {IF r.id \in ids
                     THEN [r EXCEPT !.status = "syncing", !.updatedAt = now]
                     ELSE r : r \in syncQueue}
    /\ queueCall' = [op |-> "markSyncItemSyncing"]
    /\ UNCHANGED <<nextId, now>>

markSyncItemSynced(gmailId, userId) ==
    /\ syncQueue' = {IF r.gmailId = gmailId /\ r.userId = userId
                     THEN [r EXCEPT !.status = "synced", !.updatedAt = now]
                     ELSE r : r \in syncQueue}
    /\ queueCall' = [op |-> "markSyncItemSynced"]
    /\ UNCHANGED <<nextId, now>>

\* newRetryCount >= 5
RetriesExhausted_Late(newRetryCount) == newRetryCount > MaxRetryCount

RetriesExhausted(newRetryCount) == newRetryCount >= MaxRetryCount

markSyncItemFailed_StatusFailed(gmailId, userId, error) ==
    LET found == RowsOf(syncQueue, gmailId, userId)
    IN  /\ syncQueue' = (syncQueue \ found) \cup
                        {[item EXCEPT !.lastError = error,
                                      !.retryCount = @ + 1,
                                      !.status = "failed",
                                      !.updatedAt = now,
                                      !.failures = @ + 1] : item \in found}
        /\ queueCall' = [op |-> "markSyncItemFailed", gmailId |-> gmailId,
                         userId |-> userId, error |-> error, found |-> found # {},
                         ret |-> [deleted |-> FALSE, retryCount |-> 0]]
        /\ UNCHANGED <<nextId, now>>

markSyncItemFailed(gmailId, userId, error) ==
    LET found == RowsOf(syncQueue, gmailId, userId)
    IN  /\ IF found = {}
           THEN /\ queueCall' = [op |-> "markSyncItemFailed", gmailId |-> gmailId,
                                 userId |-> userId, error |-> error, found |-> FALSE,
                                 ret |-> [deleted |-> FALSE, retryCount |-> 0]]
                /\ UNCHANGED syncQueue
           ELSE LET item == CHOOSE r \in found : TRUE
                    newRetryCount == item.retryCount + 1
                IN  /\ IF RetriesExhausted(newRetryCount)
                       THEN /\ syncQueue' = syncQueue \ found
                            /\ queueCall' = [op |-> "markSyncItemFailed", gmailId |-> gmailId,
                                             userId |-> userId, error |-> error, found |-> TRUE,
                                             ret |-> [deleted |-> TRUE,
                                                      retryCount |-> newRetryCount]]
                       ELSE /\ syncQueue' =
                                 (syncQueue \ found) \cup
                                 {[item EXCEPT !.lastError = error,
                                               !.retryCount = newRetryCount,
                                               !.status = "pending",
                                               !.updatedAt = now,
                                               !.failures = @ + 1]}
                            /\ queueCall' = [op |-> "markSyncItemFailed", gmailId |-> gmailId,
                                             userId |-> userId, error |-> error, found |-> TRUE,
                                             ret |-> [deleted |-> FALSE,
                                                      retryCount |-> newRetryCount]]
        /\ UNCHANGED <<nextId, now>>

deleteSyncedItems(userId) ==
    LET result == {r \in syncQueue : r.userId = userId /\ r.status = "synced"}
    IN  /\ syncQueue' = syncQueue \ result
        /\ queueCall' = [op |-> "deleteSyncedItems", userId |-> userId,
                         ret |-> Cardinality(result)]
        /\ UNCHANGED <<nextId, now>>

\* lt(syncQueue.updatedAt, fiveMinutesAgo)
IsStuck_Inclusive(r, fiveMinutesAgo) == r.updatedAt <= fiveMinutesAgo

IsStuck(r, fiveMinutesAgo) == r.updatedAt < fiveMinutesAgo

resetStuckSyncingItems(userId) ==
    LET fiveMinutesAgo == now - StaleMinutes
        result == {r \in syncQueue : /\ r.userId = userId
                                     /\ r.status = "syncing"
                                     /\ IsStuck(r, fiveMinutesAgo)}
    IN  /\ syncQueue' = (syncQueue \ result) \cup
                        {[r EXCEPT !.status = "pending", !.updatedAt = now] : r \in result}
        /\ queueCall' = [op |-> "resetStuckSyncingItems", userId |-> userId,
                         ret |-> Cardinality(result)]
        /\ UNCHANGED <<nextId, now>>

\* time passes, and no call is made
Tick ==
    /\ now + TickMinutes <= MaxNow
    /\ now' = now + TickMinutes
    /\ queueCall' = [op |-> "none"]
    /\ UNCHANGED <<syncQueue, nextId>>

(***************************************************************************)
(* The batch claim: getPendingSyncItems followed by markSyncItemSyncing,   *)
(* as the repository tests and processQueue make it.  The two calls are    *)
(* two awaits of the caller, so calls of other callers can come between.   *)
(***************************************************************************)
\* the callers of the claim, and the limits they pass
Callers == {"d1", "d2"}

ClaimLimits == {1, 2}

ClaimInit == callers = [c \in Callers |-> [pc |-> "idle", items |-> {}]]

PendingRows_Syncing(table, userId) ==
    {r \in table : r.userId = userId /\ r.status = "syncing"}

\* where userId = ? and status = 'pending'
PendingRows(table, userId) ==
    {r \in table : r.userId = userId /\ r.status = "pending"}

OrderedByCreatedAt_Unordered(taken, left) == TRUE

\* orderBy(createdAt).limit(limit): no row left out is older than a row taken
OrderedByCreatedAt(taken, left) ==
    \A r \in taken, q \in left : r.createdAt <= q.createdAt

\* the results getPendingSyncItems can return (rows of equal createdAt come in
\* any order)
PendingSelections(table, userId, limit) ==
    LET pending == PendingRows(table, userId)
    IN  {taken \in SUBSET pending :
            /\ Cardinality(taken) = Min(limit, Cardinality(pending))
            /\ OrderedByCreatedAt(taken, pending \ taken)}

\* what a caller keeps of the rows it was given
ItemsOf(rows) == {[id |-> r.id, gmailId |-> r.gmailId] : r \in rows}

getPendingSyncItems(userId, limit, result) ==
    /\ result \in PendingSelections(syncQueue, userId, limit)
    /\ queueCall' = [op |-> "getPendingSyncItems", userId |-> userId, limit |-> limit,
                     ret |-> {r.id : r \in result}]
    /\ UNCHANGED <<syncQueue, nextId, now>>

\* const items = await getPendingSyncItems(db, userId, limit)
ClaimSelect(c, userId, limit) ==
    /\ callers[c].pc = "idle"
    /\ \E result \in SUBSET syncQueue :
          /\ getPendingSyncItems(userId, limit, result)
          /\ callers' = [callers EXCEPT ![c] =
                            [pc |-> IF result = {} THEN "idle" ELSE "selected",
                             items |-> ItemsOf(result)]]

\* await markSyncItemSyncing(db, items.map((i) => i.id))
ClaimMark(c) ==
    /\ callers[c].pc = "selected"
    /\ markSyncItemSyncing({i.id : i \in callers[c].items})
    /\ callers' = [callers EXCEPT ![c].pc = "claimed"]

\* the caller has fetched one item of its batch: markSyncItemSynced
ClaimSettle(c, item, userId) ==
    /\ callers[c].pc = "claimed"
    /\ item \in callers[c].items
    /\ markSyncItemSynced(item.gmailId, userId)
    /\ callers' = [callers EXCEPT ![c] =
                      [pc |-> IF callers[c].items = {item} THEN "idle" ELSE "claimed",
                       items |-> callers[c].items \ {item}]]

(***************************************************************************)
(* The worker pool of classifyEmailsParallel, fetchEmailsParallel and      *)
(* processQueue: the inner while loop that starts tasks.                   *)
(***************************************************************************)
HasRoom_Inclusive(size, currentLimit) == size <= currentLimit

\* inProgress.size < currentLimit
HasRoom(size, currentLimit) == size < currentLimit

\* the number of tasks the inner loop starts, with `waiting` tasks in the
\* queue and `size` tasks in flight
RECURSIVE TasksStarted(_, _, _)
TasksStarted(waiting, size, currentLimit) ==
    IF waiting > 0 /\ HasRoom(size, currentLimit)
    THEN 1 + TasksStarted(waiting - 1, size + 1, currentLimit)
    ELSE 0

(***************************************************************************)
(* classifyEmailsParallel.  A confidence is a number of hundredths.  The   *)
(* limiter is the one deps.createRateLimiter() returns, and each task's    *)
(* withRetry call runs with maxRetries 3 and the default isRetryable,      *)
(* which are the values of `options` while withRetry itself is not         *)
(* explored.  emailProgress and batchComplete are the calls made so far of *)
(* the two progress callbacks.                                             *)
(***************************************************************************)
\* null as a classifierId
NullId == "<null>"

\* the confidence 1
One == 100

\* the entry of `answers` for an email without an answered object
NoAnswer(kind) == [kind |-> kind, classifierId |-> NullId, confidence |-> 0]

\* the objects the service answers with
GeneratedObjects ==
    [classifierId : {"c1"}, confidence : {-50, 90, 150}]
    \cup [classifierId : {"c2", NullId}, confidence : {90}]

\* the limiter deps.createRateLimiter() returns
createRateLimiter ==
    /\ maxConcurrency = PoolMax
    /\ minConcurrency = PoolMin
    /\ currentConcurrency = maxConcurrency
    /\ successThreshold \in PoolThresholds
    /\ consecutiveSuccesses = 0
    /\ consecutiveErrors = 0
    /\ calls = <<>>
    /\ successRun = 0
    /\ errorRun = 0

ClassifyInit ==
    /\ classifyPc = "called"
    /\ emails \in EmailLists
    /\ classifierIds \in ClassifierIdSets
    /\ emailQueue = <<>>
    /\ inProgress = <<>>
    /\ results = <<>>
    /\ answers = [e \in EmailIds |-> NoAnswer("none")]
    /\ timers = {}
    /\ emailProgress = <<>>
    /\ batchComplete = <<>>
    /\ limiters = 0
    /\ generated = {}

\* the catch block of classifyEmail
NoMatch(emailId) == [emailId |-> emailId, classifierId |-> NullId, confidence |-> 0]

ValidClassifierId_Unchecked(classifierId, ids) == classifierId

\* classifierId && classifierIds.has(classifierId) ? classifierId : null
ValidClassifierId(classifierId, ids) ==
    IF classifierId # NullId /\ classifierId \in ids THEN classifierId ELSE NullId

ValidConfidence_Uncapped(confidence) == Max(0, confidence)

\* Math.min(1, Math.max(0, confidence))
ValidConfidence(confidence) == Min(One, Max(0, confidence))

\* the result classifyEmail returns for the object the service answered
Classification(emailId, object, ids) ==
    LET validClassifierId == ValidClassifierId(object.classifierId, ids)
    IN  [emailId |-> emailId,
         classifierId |-> validClassifierId,
         confidence |-> IF validClassifierId # NullId
                        THEN ValidConfidence(object.confidence)
                        ELSE 0]

Pushed_MatchesOnly(all, result) ==
    IF result.classifierId = NullId THEN all ELSE Append(all, result)

\* results.push(result)
Pushed(all, result) == Append(all, result)

\* one pass of the outer loop body up to its await: read the limit and start
\* tasks, each with attempts = 1
StartTasks(queue, inFlight, currentLimit) ==
    LET n == TasksStarted(Len(queue), Cardinality(DOMAIN inFlight), currentLimit)
        started == {queue[i] : i \in 1 .. n}
    IN  [emailQueue |-> SubSeq(queue, n + 1, Len(queue)),
         inProgress |-> [e \in DOMAIN inFlight \cup started |->
                            IF e \in DOMAIN inFlight THEN inFlight[e] ELSE 1]]

\* the onEmailProgress calls classifyEmail makes before its await, for the
\* emails queue[1 .. n] in turn
RECURSIVE Classifying(_, _)
Classifying(queue, n) ==
    IF n = 0 THEN <<>>
    ELSE Classifying(queue, n - 1) \o <<<<queue[n], "classifying">>, <<queue[n], "classifying">>>>

\* the onEmailProgress calls of the tasks one round starts
StartedProgress(queue, left) == Classifying(queue, Len(queue) - Len(left))

NothingToClassify_NoEmails(emailList, classifierIdSet) == Len(emailList) = 0

\* emails.length === 0 || classifiers.length === 0
NothingToClassify(emailList, classifierIdSet) == Len(emailList) = 0 \/ classifierIdSet = {}

\* the call, up to the first await Promise.race
classifyEmailsParallel ==
    /\ classifyPc = "called"
    /\ IF NothingToClassify(emails, classifierIds)
       THEN /\ classifyPc' = "returned"
            /\ UNCHANGED <<emailQueue, inProgress, emailProgress, limiters, generated>>
       ELSE LET round == StartTasks(emails, <<>>, getConcurrency)
            IN  /\ limiters' = limiters + 1
                /\ emailQueue' = round.emailQueue
                /\ inProgress' = round.inProgress
                /\ emailProgress' = [i \in DOMAIN emails |-> <<emails[i], "pending">>]
                                        \o StartedProgress(emails, round.emailQueue)
                /\ generated' = DOMAIN round.inProgress
                /\ classifyPc' = "running"
    /\ UNCHANGED <<emails, classifierIds, results, answers, timers, batchComplete,
                   limiterVars>>

BatchCompleted_Left(log, completed, total) == Append(log, <<total - completed, total>>)

\* options?.onBatchComplete?.(results.length, emails.length)
BatchCompleted(log, completed, total) == Append(log, <<completed, total>>)

\* classifyEmail reports completion (in its try block and in its catch block
\* alike) and returns result: the then and finally callbacks of its task,
\* and the outer loop's next pass, which reads the limit again
TaskSettles(e, result) ==
    LET left == [x \in DOMAIN inProgress \ {e} |-> inProgress[x]]
        round == StartTasks(emailQueue, left, currentConcurrency')
    IN  /\ results' = Pushed(results, result)
        /\ batchComplete' = BatchCompleted(batchComplete, Len(results'), Len(emails))
        /\ emailProgress' = Append(emailProgress, <<e, "completed">>)
                                \o StartedProgress(emailQueue, round.emailQueue)
        /\ generated' = generated \cup DOMAIN round.inProgress
        /\ emailQueue' = round.emailQueue
        /\ inProgress' = round.inProgress
        /\ classifyPc' = IF Len(round.emailQueue) = 0 /\ DOMAIN round.inProgress = {}
                         THEN "returned" ELSE "running"

FirstAttempt_Any(n) == TRUE

\* if (attempts === 1)
FirstAttempt(n) == n = 1

\* deps.generateObject resolves with object: the timer is created, the race
\* is won by the answer, withRetry returns
GenerateResolves(e, object) ==
    /\ classifyPc = "running"
    /\ e \in DOMAIN inProgress
    /\ IF FirstAttempt(inProgress[e])
       THEN recordSuccessBody /\ UNCHANGED limiterHistory
       ELSE UNCHANGED limiterVars
    /\ timers' = timers \cup {e}
    /\ answers' = [answers EXCEPT ![e] = [kind |-> "object",
                                          classifierId |-> object.classifierId,
                                          confidence |-> object.confidence]]
    /\ TaskSettles(e, Classification(e, object, classifierIds))
    /\ UNCHANGED <<emails, classifierIds, limiters>>

\* deps.generateObject rejects with error: withRetry's catch block, then
\* either the next attempt (the sleep is not modelled as a step of its own)
\* or classifyEmail's catch block
GenerateRejects(e, error) ==
    /\ classifyPc = "running"
    /\ e \in DOMAIN inProgress
    /\ IF /\ RetriesLeft(inProgress[e])
          /\ ~isRetryableThrows(options.isRetryable, error)
          /\ isRetryable(options.isRetryable, error)
       THEN /\ recordErrorBody(isRateLimitError(error))
            /\ UNCHANGED limiterHistory
            /\ inProgress' = [inProgress EXCEPT ![e] = @ + 1]
            /\ UNCHANGED <<classifyPc, emailQueue, results, answers, emailProgress,
                           batchComplete, generated>>
       ELSE /\ UNCHANGED limiterVars
            /\ answers' = [answers EXCEPT ![e] = NoAnswer("error")]
            /\ TaskSettles(e, NoMatch(e))
    /\ UNCHANGED <<emails, classifierIds, timers, limiters>>

\* the timer of an attempt fires after TIMEOUT_MS: its race is over
TimerFires(e) ==
    /\ e \in timers
    /\ timers' = timers \ {e}
    /\ UNCHANGED <<classifyPc, emails, classifierIds, emailQueue, inProgress,
                   results, answers, emailProgress, batchComplete, limiters,
                   generated, limiterVars>>

(***************************************************************************)
(* BackgroundSyncManager, for the owner ManagerUser.  A run is a record    *)
(*   [kind, pc, stopped, messageIds, attempts, pages, batchNumber, queue,  *)
(*    inProgress, emails]                                                  *)
(* with the locals of listAndQueueMessages and processQueue; pc names the  *)
(* await the run is at: "listing" (messages.list), "stats"                 *)
(* (getSyncQueueStats), "select" (getPendingSyncItems), "mark"             *)
(* (markSyncItemSyncing), "pool" (Promise.race), and then "complete" (the  *)
(* finally block has run) or "returned" (resumeSync found nothing          *)
(* pending).  stopped is no local: it tells that stop() was called after   *)
(* the run set isRunning.  A fetch is a record [run, gmailId, attempts] with the   *)
(* `attempts` of its withRetry call, which runs with maxRetries 3 and the  *)
(* default isRetryable.  The repository calls never fail, the onProgress   *)
(* callbacks are left out, and a sleep of withRetry is no step of its own. *)
(***************************************************************************)
ManagerUser == "u1"

\* messageIds.length >= 100
QueueFlushSize == 100

\* the message of the TypeError `gmailIds.length` throws
UndefinedLength == "undefined is not an object"

FreshProgress(stage, totalQueued, totalSynced) ==
    [stage |-> stage, totalQueued |-> totalQueued, totalSynced |-> totalSynced,
     totalFailed |-> 0, currentBatch |-> 0, errors |-> <<>>, isRunning |-> stage # "idle"]

\* the messages.get calls an earlier process made for the rows it left: four
\* for each failure of a row (every attempt of withRetry was used), one for a
\* synced row, none for a row it had just claimed
GetsBefore(table, gmailId) ==
    LET found == RowsOf(table, gmailId, ManagerUser)
    IN  IF found = {}
        THEN 0
        ELSE LET item == CHOOSE r \in found : TRUE
             IN  IF item.status = "synced" THEN 1 ELSE item.failures * 4

\* a manager right after construction; the store holds the emails of the rows
\* an earlier process left synced
ManagerStarts(faults) ==
    /\ isRunning = FALSE
    /\ shouldStop = FALSE
    /\ progress = FreshProgress("idle", 0, 0)
    /\ runs = <<>>
    /\ fetches = {}
    /\ store = {r.gmailId : r \in {q \in syncQueue : q.userId = ManagerUser
                                                     /\ q.status = "synced"}}
    /\ callsLeft = MaxCalls
    /\ faultsLeft = faults
    /\ getCalls = [g \in GmailIds |-> GetsBefore(syncQueue, g)]

ManagerInit == ManagerStarts(MaxFaults)

\* the limiter the constructor creates
ManagerRateLimiter ==
    /\ maxConcurrency = PoolMax
    /\ minConcurrency = PoolMin
    /\ currentConcurrency = PoolMax
    /\ successThreshold = 20
    /\ consecutiveSuccesses = 0
    /\ consecutiveErrors = 0
    /\ calls = <<>>
    /\ successRun = 0
    /\ errorRun = 0

\* the rows an earlier process can have left for one id when it ended:
\* pending after retryCounts failures, syncing since syncingSince, or synced
LeftRows(id, gmailId, retryCounts, syncingSince) ==
    {[id |-> id, gmailId |-> gmailId, userId |-> ManagerUser, accountId |-> "acc1",
      status |-> "pending", retryCount |-> n,
      lastError |-> IF n = 0 THEN NullText ELSE "Error",
      createdAt |-> 0, updatedAt |-> 0, failures |-> n] : n \in retryCounts}
    \cup
    {[id |-> id, gmailId |-> gmailId, userId |-> ManagerUser, accountId |-> "acc1",
      status |-> "syncing", retryCount |-> 0, lastError |-> NullText,
      createdAt |-> 0, updatedAt |-> t, failures |-> 0] : t \in syncingSince}
    \cup
    {[id |-> id, gmailId |-> gmailId, userId |-> ManagerUser, accountId |-> "acc1",
      status |-> "synced", retryCount |-> 0, lastError |-> NullText,
      createdAt |-> 0, updatedAt |-> 0, failures |-> 0]}

\* the queue a process finds when it starts
LeftQueueInit ==
    /\ \E first \in SUBSET LeftRows(1, "m1", {4}, {0, MaxNow}),
          second \in SUBSET LeftRows(2, "m2", {3}, {MaxNow}) :
          /\ Cardinality(first) <= 1
          /\ Cardinality(second) <= 1
          /\ syncQueue = first \cup second
    /\ nextId = 3
    /\ now = MaxNow
    /\ queueCall = [op |-> "none"]

NewRun(kind, pc) ==
    [kind |-> kind, pc |-> pc, stopped |-> FALSE, messageIds |-> <<>>, attempts |-> 1,
     pages |-> 0, batchNumber |-> 0, queue |-> <<>>, inProgress |-> {}, emails |-> {}]

Finally_StageKept(p) == [p EXCEPT !.isRunning = FALSE]

\* the finally block of startSync and resumeSync
Finally(p) == [p EXCEPT !.stage = "complete", !.isRunning = FALSE]

\* the effects of a step that leaves the run as `run` and the progress as p
RunBecomes(r, run, p) ==
    /\ runs' = [runs EXCEPT ![r] = IF run.pc = "complete"
                                   THEN [NewRun(run.kind, "complete")
                                           EXCEPT !.stopped = run.stopped,
                                                  !.messageIds = run.messageIds]
                                   ELSE run]
    /\ progress' = IF run.pc = "complete" THEN Finally(p) ELSE p
    /\ isRunning' = IF run.pc = "complete" THEN FALSE ELSE isRunning

startSync ==
    /\ callsLeft > 0
    /\ callsLeft' = callsLeft - 1
    /\ IF isRunning
       THEN UNCHANGED <<isRunning, shouldStop, progress, runs>>
       ELSE /\ isRunning' = TRUE
            /\ shouldStop' = FALSE
            /\ progress' = FreshProgress("listing", 0, 0)
            /\ runs' = Append(runs, NewRun("startSync", "listing"))
    /\ UNCHANGED <<fetches, store, faultsLeft, getCalls, limiterVars, queueVars>>

\* listAndQueueMessages from its break to the end of startSync.  Both calls
\* addToSyncQueue(this.db, this.userId, messageIds) pass the ids as accountId
\* and leave gmailIds undefined, so that `gmailIds.length` throws: the call
\* inside the loop ends in the loop's catch block, the call after the loop in
\* startSync's catch block, and no id is enqueued.
ListingEnds(r, messageIds, errors) ==
    /\ RunBecomes(r, [runs[r] EXCEPT !.pc = "complete", !.messageIds = messageIds],
                  [progress EXCEPT !.errors = IF Len(messageIds) > 0
                                              THEN Append(errors, UndefinedLength)
                                              ELSE errors])
    /\ UNCHANGED <<shouldStop, fetches, store, callsLeft, queueVars>>

\* messages.list resolves with a page of ids and, when more, a nextPageToken
ListResolves(r, ids, more) ==
    /\ runs[r].pc = "listing"
    /\ more => runs[r].pages + 1 < MaxPages
    /\ recordSuccessBody
    /\ UNCHANGED <<limiterHistory, faultsLeft, getCalls>>
    /\ LET messageIds == runs[r].messageIds \o ids
       IN  IF Len(messageIds) >= QueueFlushSize \/ ~more
           THEN ListingEnds(r, messageIds,
                            Append(progress.errors, "Failed to list messages"))
           ELSE IF shouldStop
           THEN ListingEnds(r, messageIds, progress.errors)
           ELSE /\ runs' = [runs EXCEPT ![r] = [@ EXCEPT !.messageIds = messageIds,
                                                          !.attempts = 1,
                                                          !.pages = @ + 1]]
                /\ UNCHANGED <<isRunning, shouldStop, progress, fetches, store,
                               callsLeft, queueVars>>

\* messages.list rejects with error: withRetry's catch block, then either the
\* next attempt or the catch block of the loop
ListRejects(r, error) ==
    /\ runs[r].pc = "listing"
    /\ faultsLeft > 0
    /\ faultsLeft' = faultsLeft - 1
    /\ UNCHANGED getCalls
    /\ IF /\ RetriesLeft(runs[r].attempts)
          /\ ~isRetryableThrows(options.isRetryable, error)
          /\ isRetryable(options.isRetryable, error)
       THEN /\ recordErrorBody(isRateLimitError(error))
            /\ UNCHANGED limiterHistory
            /\ runs' = [runs EXCEPT ![r].attempts = @ + 1]
            /\ UNCHANGED <<isRunning, shouldStop, progress, fetches, store,
                           callsLeft, queueVars>>
       ELSE /\ UNCHANGED limiterVars
            /\ ListingEnds(r, runs[r].messageIds,
                           Append(progress.errors, "Failed to list messages"))

\* resumeSync, up to the end of resetStuckSyncingItems
resumeSync ==
    /\ callsLeft > 0
    /\ callsLeft' = callsLeft - 1
    /\ IF isRunning
       THEN UNCHANGED <<runs, queueVars>>
       ELSE /\ resetStuckSyncingItems(ManagerUser)
            /\ runs' = Append(runs, NewRun("resumeSync", "stats"))
    /\ UNCHANGED <<isRunning, shouldStop, progress, fetches, store, faultsLeft, getCalls,
                   limiterVars>>

getSyncQueueStats_AllOwners(table, userId) ==
    LET count(status) == Cardinality({r \in table : r.status = status})
    IN  [failed |-> count("failed"), pending |-> count("pending"),
         synced |-> count("synced"), syncing |-> count("syncing"),
         total |-> Cardinality(table)]

\* the counts getSyncQueueStats returns
getSyncQueueStats(table, userId) ==
    LET count(status) == Cardinality({r \in table : r.userId = userId /\ r.status = status})
    IN  [failed |-> count("failed"), pending |-> count("pending"),
         synced |-> count("synced"), syncing |-> count("syncing"),
         total |-> Cardinality({r \in table : r.userId = userId})]

\* getSyncQueueStats resolves: resumeSync returns, or starts the run and
\* processQueue asks for the first batch
StatsDone(r) ==
    /\ runs[r].pc = "stats"
    /\ LET stats == getSyncQueueStats(syncQueue, ManagerUser)
       IN  IF stats.pending = 0
           THEN /\ runs' = [runs EXCEPT ![r].pc = "returned"]
                /\ UNCHANGED <<isRunning, shouldStop, progress>>
           ELSE /\ isRunning' = TRUE
                /\ shouldStop' = FALSE
                /\ progress' = FreshProgress("syncing", stats.pending, stats.synced)
                /\ runs' = [runs EXCEPT ![r].pc = "select"]
    /\ queueCall' = [op |-> "getSyncQueueStats"]
    /\ UNCHANGED <<syncQueue, nextId, now, fetches, store, callsLeft, faultsLeft, getCalls,
                   limiterVars>>

\* the orders in which a query can return rows sorted by createdAt
Orderings(rows) ==
    {order \in [1 .. Cardinality(rows) -> rows] :
        /\ \A i, j \in DOMAIN order : i < j => order[i] # order[j]
        /\ \A i, j \in DOMAIN order : i < j => order[i].createdAt <= order[j].createdAt}

\* getPendingSyncItems resolves: processQueue ends, or begins a batch and
\* marks its items
SelectDone(r) ==
    /\ runs[r].pc = "select"
    /\ \E result \in SUBSET syncQueue :
          /\ getPendingSyncItems(ManagerUser, DrainBatch, result)
          /\ IF result = {}
             THEN RunBecomes(r, [runs[r] EXCEPT !.pc = "complete"], progress)
             ELSE \E items \in Orderings(result) :
                     RunBecomes(r, [runs[r] EXCEPT
                                       !.pc = "mark",
                                       !.batchNumber = @ + 1,
                                       !.queue = [i \in DOMAIN items |->
                                                    [id |-> items[i].id,
                                                     gmailId |-> items[i].gmailId]],
                                       !.inProgress = {},
                                       !.emails = {}],
                                [progress EXCEPT !.currentBatch = runs[r].batchNumber + 1])
    /\ UNCHANGED <<shouldStop, fetches, store, callsLeft, faultsLeft, getCalls, limiterVars>>

\* processQueue from the top of its inner loop to its next await: the break
\* on shouldStop, or the start of tasks up to the limit, and at the end of
\* the batch upsertEmails and the test of the outer loop
PoolPass(run, stop, currentLimit) ==
    IF stop
    THEN [run |-> [run EXCEPT !.pc = "complete"], started |-> {}, upserted |-> run.emails]
    ELSE LET n == TasksStarted(Len(run.queue), Cardinality(run.inProgress), currentLimit)
             started == {run.queue[i].gmailId : i \in 1 .. n}
             inFlight == run.inProgress \cup started
         IN  IF inFlight # {}
             THEN [run |-> [run EXCEPT !.pc = "pool",
                                       !.queue = SubSeq(run.queue, n + 1, Len(run.queue)),
                                       !.inProgress = inFlight],
                   started |-> started, upserted |-> {}]
             ELSE [run |-> [run EXCEPT !.pc = "select"],
                   started |-> {}, upserted |-> run.emails]

\* the effects of PoolPass on run r, with p the progress as the step leaves it
\* and ended the fetches that settled in the step
Passes(r, pass, p, ended) ==
    /\ RunBecomes(r, pass.run, p)
    /\ fetches' = (fetches \ ended) \cup
                  {[run |-> r, gmailId |-> g, attempts |-> 1] : g \in pass.started}
    /\ store' = store \cup pass.upserted

\* markSyncItemSyncing resolves, and the inner loop starts the first fetches
MarkDone(r) ==
    /\ runs[r].pc = "mark"
    /\ markSyncItemSyncing({runs[r].queue[i].id : i \in DOMAIN runs[r].queue})
    /\ Passes(r, PoolPass(runs[r], shouldStop, getConcurrency), progress, {})
    /\ UNCHANGED <<shouldStop, callsLeft, faultsLeft, getCalls, limiterVars>>

\* the end of a fetch's callbacks: inProgress.delete, and the pass of
\* processQueue that the settled promise wakes when the run still awaits it
FetchSettles(f, emailData, p) ==
    LET run == runs[f.run]
    IN  IF run.pc = "pool" /\ f.gmailId \in run.inProgress
        THEN Passes(f.run,
                    PoolPass([run EXCEPT !.inProgress = @ \ {f.gmailId},
                                         !.emails = @ \cup emailData],
                             shouldStop, currentConcurrency'),
                    p, {f})
        ELSE /\ fetches' = fetches \ {f}
             /\ progress' = p
             /\ UNCHANGED <<runs, store, isRunning>>

\* the then callback of a fetch
FetchSucceeds(f) ==
    /\ markSyncItemSynced(f.gmailId, ManagerUser)
    /\ FetchSettles(f, {f.gmailId}, [progress EXCEPT !.totalSynced = @ + 1])

FailureReported_Always(p, deleted, gmailId) ==
    [p EXCEPT !.totalFailed = @ + 1, !.errors = Append(@, gmailId)]

\* if (deleted) { totalFailed++; errors.push(`Email ${gmailId} failed ...`) }
FailureReported(p, deleted, gmailId) ==
    IF deleted
    THEN [p EXCEPT !.totalFailed = @ + 1, !.errors = Append(@, gmailId)]
    ELSE p

\* the catch callback of a fetch
FetchFails(f) ==
    /\ \E errorMsg \in ErrorMessages : markSyncItemFailed(f.gmailId, ManagerUser, errorMsg)
    /\ FetchSettles(f, {}, FailureReported(progress, queueCall'.ret.deleted, f.gmailId))

\* messages.get resolves; a message without id or threadId fails the
\* invariant() calls of fetchAndProcessEmail
FetchResolves(f, wellFormed) ==
    /\ f \in fetches
    /\ getCalls' = [getCalls EXCEPT ![f.gmailId] = @ + 1]
    /\ IF f.attempts = 1
       THEN recordSuccessBody /\ UNCHANGED limiterHistory
       ELSE UNCHANGED limiterVars
    /\ IF wellFormed
       THEN FetchSucceeds(f) /\ UNCHANGED faultsLeft
       ELSE faultsLeft > 0 /\ faultsLeft' = faultsLeft - 1 /\ FetchFails(f)
    /\ UNCHANGED <<shouldStop, callsLeft>>

\* messages.get rejects with error: withRetry's catch block, then either the
\* next attempt or the catch callback
FetchRejects(f, error) ==
    /\ f \in fetches
    /\ getCalls' = [getCalls EXCEPT ![f.gmailId] = @ + 1]
    /\ faultsLeft > 0
    /\ faultsLeft' = faultsLeft - 1
    /\ IF /\ RetriesLeft(f.attempts)
          /\ ~isRetryableThrows(options.isRetryable, error)
          /\ isRetryable(options.isRetryable, error)
       THEN /\ recordErrorBody(isRateLimitError(error))
            /\ UNCHANGED limiterHistory
            /\ fetches' = (fetches \ {f}) \cup {[f EXCEPT !.attempts = @ + 1]}
            /\ UNCHANGED <<isRunning, progress, runs, store, queueVars>>
       ELSE /\ UNCHANGED limiterVars
            /\ FetchFails(f)
    /\ UNCHANGED <<shouldStop, callsLeft>>

stop ==
    /\ callsLeft > 0
    /\ callsLeft' = callsLeft - 1
    /\ shouldStop' = TRUE
    /\ runs' = [r \in DOMAIN runs |->
                   IF runs[r].pc \in {"stats", "complete", "returned"}
                   THEN runs[r]
                   ELSE [runs[r] EXCEPT !.stopped = TRUE]]
    /\ UNCHANGED <<isRunning, progress, fetches, store, faultsLeft, getCalls, limiterVars,
                   queueVars>>

(***************************************************************************)
(* Specifications                                                          *)
(***************************************************************************)
\* values of a component's variables while another component is explored
LimiterIdle ==
    /\ maxConcurrency = 50
    /\ minConcurrency = 5
    /\ currentConcurrency = 50
    /\ successThreshold = 20
    /\ consecutiveSuccesses = 0
    /\ consecutiveErrors = 0
    /\ calls = <<>>
    /\ successRun = 0
    /\ errorRun = 0

RetryIdle ==
    /\ options = [maxRetries |-> 3, isRetryable |-> "default", initialBackoffMs |-> 1000,
                  maxBackoffMs |-> 30000, backoffMultiplier |-> 2, jitterMs |-> 500]
    /\ retryPc = "start"
    /\ attempts = 0
    /\ totalDelayMs = 0
    /\ thrown = <<>>
    /\ fnCalls = 0
    /\ onRetryLog = <<>>
    /\ sleeps = <<>>
    /\ settled = <<>>

QueueIdle == QueueInit

ClaimIdle == ClaimInit

\* classifyEmailsParallel is not called
ClassifyIdle ==
    /\ classifyPc = "idle"
    /\ emails = <<>>
    /\ classifierIds = {}
    /\ emailQueue = <<>>
    /\ inProgress = <<>>
    /\ results = <<>>
    /\ answers = [e \in EmailIds |-> NoAnswer("none")]
    /\ timers = {}
    /\ emailProgress = <<>>
    /\ batchComplete = <<>>
    /\ limiters = 0
    /\ generated = {}

\* no call is made on the manager
ManagerIdle ==
    /\ isRunning = FALSE
    /\ shouldStop = FALSE
    /\ progress = FreshProgress("idle", 0, 0)
    /\ runs = <<>>
    /\ fetches = {}
    /\ store = {}
    /\ callsLeft = 0
    /\ faultsLeft = 0
    /\ getCalls = [g \in GmailIds |-> 0]

DriversIdle == ClaimIdle /\ ClassifyIdle /\ ManagerIdle

InitLimiter == LimiterInit /\ RetryIdle /\ QueueIdle /\ DriversIdle

NextLimiter ==
    \/ recordSuccess /\ UNCHANGED <<retryVars, queueVars, driverVars>>
    \/ recordError(TRUE) /\ UNCHANGED <<retryVars, queueVars, driverVars>>
    \/ recordError(FALSE) /\ UNCHANGED <<retryVars, queueVars, driverVars>>
    \/ reset /\ UNCHANGED <<retryVars, queueVars, driverVars>>

SpecLimiter == InitLimiter /\ [][NextLimiter]_vars

InitRetry == RetryInit /\ LimiterIdle /\ QueueIdle /\ DriversIdle

NextRetry ==
    \/ InvokeFn /\ UNCHANGED <<limiterVars, queueVars, driverVars>>
    \/ FnResolves /\ UNCHANGED <<limiterVars, queueVars, driverVars>>
    \/ \E error \in ErrorValues :
          FnRejects(error) /\ UNCHANGED <<limiterVars, queueVars, driverVars>>

SpecRetry == InitRetry /\ [][NextRetry]_vars

\* options under which the backoff reaches maxBackoffMs within the retries:
\* multipliers 1, 2 and 3, an initial backoff below, near and above the cap
BackoffOptionsExplored ==
    [ maxRetries : {3},
      isRetryable : {"default", "always"},
      initialBackoffMs : {1, 2, 4},
      maxBackoffMs : {3},
      backoffMultiplier : {1, 2, 3},
      jitterMs : {0, 2} ]

\* fn rejects with an error that the default predicate retries, or with one
\* that it does not
BackoffErrors == {ErrorOf({"rate limit"}, 0), ErrorOf({"fatal"}, 0)}

InitBackoff ==
    /\ options \in BackoffOptionsExplored
    /\ retryPc = "start"
    /\ attempts = 0
    /\ totalDelayMs = 0
    /\ thrown = <<>>
    /\ fnCalls = 0
    /\ onRetryLog = <<>>
    /\ sleeps = <<>>
    /\ settled = <<>>
    /\ LimiterIdle /\ QueueIdle /\ DriversIdle

NextBackoff ==
    \/ InvokeFn /\ UNCHANGED <<limiterVars, queueVars, driverVars>>
    \/ FnResolves /\ UNCHANGED <<limiterVars, queueVars, driverVars>>
    \/ \E error \in BackoffErrors :
          FnRejects(error) /\ UNCHANGED <<limiterVars, queueVars, driverVars>>

SpecBackoff == InitBackoff /\ [][NextBackoff]_vars

InitQueue == QueueInit /\ LimiterIdle /\ RetryIdle /\ DriversIdle

\* the repository calls with owners drawn from users and ids from gmailIdSet
QueueCalls(users, gmailIdSet) ==
    \/ \E userId \in users, accountId \in Accounts, gmailIds \in IdLists(gmailIdSet) :
          addToSyncQueue(userId, accountId, gmailIds) /\ UNCHANGED <<limiterVars, retryVars, driverVars>>
    \/ \E ids \in SUBSET {r.id : r \in syncQueue} :
          markSyncItemSyncing(ids) /\ UNCHANGED <<limiterVars, retryVars, driverVars>>
    \/ \E gmailId \in gmailIdSet, userId \in users :
          markSyncItemSynced(gmailId, userId) /\ UNCHANGED <<limiterVars, retryVars, driverVars>>
    \/ \E gmailId \in gmailIdSet, userId \in users, error \in ErrorMessages :
          markSyncItemFailed(gmailId, userId, error) /\ UNCHANGED <<limiterVars, retryVars, driverVars>>
    \/ \E userId \in users :
          deleteSyncedItems(userId) /\ UNCHANGED <<limiterVars, retryVars, driverVars>>
    \/ \E userId \in users :
          resetStuckSyncingItems(userId) /\ UNCHANGED <<limiterVars, retryVars, driverVars>>
    \/ Tick /\ UNCHANGED <<limiterVars, retryVars, driverVars>>

\* one owner with two items
NextQueueOneOwner == QueueCalls({"u1"}, GmailIds)

SpecQueueOneOwner == InitQueue /\ [][NextQueueOneOwner]_vars

\* two owners of the same item
NextQueueTwoOwners == QueueCalls(Users, {"m1"})

SpecQueueTwoOwners == InitQueue /\ [][NextQueueTwoOwners]_vars

InitClaimBatch == QueueInit /\ ClaimInit /\ LimiterIdle /\ RetryIdle /\ ClassifyIdle /\ ManagerIdle

\* two callers claim batches of the rows of owner u1 while ids are enqueued,
\* for u1 and for another owner, and time passes once
NextClaimBatch ==
    \/ \E gmailIds \in IdLists(GmailIds), accountId \in Accounts :
          /\ addToSyncQueue("u1", accountId, gmailIds)
          /\ UNCHANGED <<limiterVars, retryVars, driverVars>>
    \/ \E accountId \in Accounts :
          /\ addToSyncQueue("u2", accountId, <<"m1">>)
          /\ UNCHANGED <<limiterVars, retryVars, driverVars>>
    \/ \E c \in Callers, limit \in ClaimLimits :
          ClaimSelect(c, "u1", limit) /\ UNCHANGED <<limiterVars, retryVars, classifierVars, managerVars>>
    \/ \E c \in Callers :
          ClaimMark(c) /\ UNCHANGED <<limiterVars, retryVars, classifierVars, managerVars>>
    \/ \E c \in Callers :
          \E item \in callers[c].items :
             ClaimSettle(c, item, "u1") /\ UNCHANGED <<limiterVars, retryVars, classifierVars, managerVars>>
    \/ now = 0 /\ Tick /\ UNCHANGED <<limiterVars, retryVars, driverVars>>

SpecClaimBatch == InitClaimBatch /\ [][NextClaimBatch]_vars

\* getSyncQueueStats as a repository call
QueueStats(userId) ==
    /\ queueCall' = [op |-> "getSyncQueueStats", userId |-> userId,
                     ret |-> getSyncQueueStats(syncQueue, userId)]
    /\ UNCHANGED <<syncQueue, nextId, now>>

\* the owner's row with this gmail id is there and synced
IsSynced(gmailId, userId) ==
    \E r \in RowsOf(syncQueue, gmailId, userId) : r.status = "synced"

\* the owner's row with this gmail id is there and markSyncItemFailed was
\* never called on it
NeverFailed(gmailId, userId) ==
    \E r \in RowsOf(syncQueue, gmailId, userId) : r.failures = 0

InitQueueStats == QueueInit /\ ClaimInit /\ LimiterIdle /\ RetryIdle /\ ClassifyIdle /\ ManagerIdle

\* caller d1 plays the scenario on the rows of owner u1: it enqueues a, b and
\* c, claims a batch of two, marks a synced and b failed; owner u2 works on a
\* row of its own meanwhile, and the statistics of either owner are read at
\* any time
NextQueueStats ==
    \/ \E accountId \in Accounts :
          /\ RowsOf(syncQueue, "a", "u1") = {}
          /\ addToSyncQueueUpTo(StatsInserts, "u1", accountId, <<"a", "b", "c">>)
          /\ UNCHANGED <<limiterVars, retryVars, driverVars>>
    \/ /\ RowsOf(syncQueue, "a", "u1") # {}
       /\ ClaimSelect("d1", "u1", 2)
       /\ UNCHANGED <<limiterVars, retryVars, classifierVars, managerVars>>
    \/ ClaimMark("d1") /\ UNCHANGED <<limiterVars, retryVars, classifierVars, managerVars>>
    \/ /\ callers["d1"].pc = "claimed"
       /\ ~IsSynced("a", "u1")
       /\ markSyncItemSynced("a", "u1")
       /\ UNCHANGED <<limiterVars, retryVars, driverVars>>
    \/ \E error \in ErrorMessages :
          /\ callers["d1"].pc = "claimed"
          /\ IsSynced("a", "u1")
          /\ NeverFailed("b", "u1")
          /\ markSyncItemFailed("b", "u1", error)
          /\ UNCHANGED <<limiterVars, retryVars, driverVars>>
    \/ \E userId \in Users :
          QueueStats(userId) /\ UNCHANGED <<limiterVars, retryVars, driverVars>>
    \/ \E accountId \in Accounts :
          /\ addToSyncQueueUpTo(StatsInserts, "u2", accountId, <<"a">>)
          /\ UNCHANGED <<limiterVars, retryVars, driverVars>>
    \/ \E r \in {q \in syncQueue : q.userId = "u2"} :
          markSyncItemSyncing({r.id}) /\ UNCHANGED <<limiterVars, retryVars, driverVars>>
    \/ markSyncItemSynced("a", "u2") /\ UNCHANGED <<limiterVars, retryVars, driverVars>>
    \/ \E error \in ErrorMessages :
          markSyncItemFailed("a", "u2", error) /\ UNCHANGED <<limiterVars, retryVars, driverVars>>

SpecQueueStats == InitQueueStats /\ [][NextQueueStats]_vars

InitClassify ==
    ClassifyInit /\ createRateLimiter /\ RetryIdle /\ QueueIdle /\ ClaimIdle /\ ManagerIdle

\* the call of classifyEmailsParallel
ClassifierCalled ==
    classifyEmailsParallel /\ UNCHANGED <<retryVars, queueVars, claimVars, managerVars>>

\* the timers that are armed fire
TimersFire ==
    \E e \in EmailIds :
       TimerFires(e) /\ UNCHANGED <<retryVars, queueVars, claimVars, managerVars>>

NextClassify ==
    \/ ClassifierCalled
    \/ \E e \in EmailIds, object \in GeneratedObjects :
          /\ GenerateResolves(e, object)
          /\ UNCHANGED <<retryVars, queueVars, claimVars, managerVars>>
    \/ \E e \in EmailIds, error \in ServiceErrors :
          /\ GenerateRejects(e, error)
          /\ UNCHANGED <<retryVars, queueVars, claimVars, managerVars>>
    \/ TimersFire

SpecClassify == InitClassify /\ [][NextClassify]_vars

\* Maximum concurrent API calls
MAX_CONCURRENT == 30

\* Minimum concurrent API calls
MIN_CONCURRENT == 5

\* the limiter defaultDependencies.createRateLimiter() returns
defaultDependencies ==
    /\ maxConcurrency = MAX_CONCURRENT
    /\ minConcurrency = MIN_CONCURRENT
    /\ currentConcurrency = MAX_CONCURRENT
    /\ successThreshold = 10
    /\ consecutiveSuccesses = 0
    /\ consecutiveErrors = 0
    /\ calls = <<>>
    /\ successRun = 0
    /\ errorRun = 0

\* lists of MIN_CONCURRENT and of MIN_CONCURRENT + 1 emails
DefaultEmailIds == {"e1", "e2", "e3", "e4", "e5", "e6"}

DefaultEmailLists == {<<"e1", "e2", "e3", "e4", "e5">>, <<"e1", "e2", "e3", "e4", "e5", "e6">>}

InitClassifyDefault ==
    /\ classifyPc = "called"
    /\ emails \in DefaultEmailLists
    /\ classifierIds = {"c1"}
    /\ emailQueue = <<>>
    /\ inProgress = <<>>
    /\ results = <<>>
    /\ answers = [e \in DefaultEmailIds |-> NoAnswer("none")]
    /\ timers = {}
    /\ emailProgress = <<>>
    /\ batchComplete = <<>>
    /\ limiters = 0
    /\ generated = {}
    /\ defaultDependencies
    /\ RetryIdle /\ QueueIdle /\ ClaimIdle /\ ManagerIdle

\* the call with the default dependencies; the service answers every email
\* with a match or with an error that is not retried
NextClassifyDefault ==
    \/ ClassifierCalled
    \/ \E e \in DefaultEmailIds :
          /\ GenerateResolves(e, [classifierId |-> "c1", confidence |-> 90])
          /\ UNCHANGED <<retryVars, queueVars, claimVars, managerVars>>
    \/ \E e \in DefaultEmailIds :
          /\ GenerateRejects(e, ErrorOf({"fatal"}, 0))
          /\ UNCHANGED <<retryVars, queueVars, claimVars, managerVars>>

SpecClassifyDefault == InitClassifyDefault /\ [][NextClassifyDefault]_vars

\* the event loop runs the call and fires the armed timers; nothing makes
\* the service answer
SpecClassifyFair ==
    /\ InitClassify
    /\ [][NextClassify]_vars
    /\ WF_vars(ClassifierCalled)
    /\ WF_vars(TimersFire)

InitDrain ==
    LeftQueueInit /\ ManagerInit /\ ManagerRateLimiter /\ RetryIdle /\ ClaimIdle /\ ClassifyIdle

\* the steps of the runs that need no call of the manager's user: the
\* answers of the remote service and of the database
DrainProceeds ==
    \/ \E r \in DOMAIN runs, ids \in {<<>>, <<"m1">>}, more \in BOOLEAN :
          /\ ListResolves(r, ids, more)
          /\ UNCHANGED <<retryVars, claimVars, classifierVars>>
    \/ \E r \in DOMAIN runs, error \in ServiceErrors :
          /\ ListRejects(r, error)
          /\ UNCHANGED <<retryVars, claimVars, classifierVars>>
    \/ \E r \in DOMAIN runs :
          StatsDone(r) /\ UNCHANGED <<retryVars, claimVars, classifierVars>>
    \/ \E r \in DOMAIN runs :
          SelectDone(r) /\ UNCHANGED <<retryVars, claimVars, classifierVars>>
    \/ \E r \in DOMAIN runs :
          MarkDone(r) /\ UNCHANGED <<retryVars, claimVars, classifierVars>>
    \/ \E f \in fetches, wellFormed \in BOOLEAN :
          /\ FetchResolves(f, wellFormed)
          /\ UNCHANGED <<retryVars, claimVars, classifierVars>>
    \/ \E f \in fetches, error \in ServiceErrors :
          /\ FetchRejects(f, error)
          /\ UNCHANGED <<retryVars, claimVars, classifierVars>>

NextDrain ==
    \/ startSync /\ UNCHANGED <<retryVars, claimVars, classifierVars>>
    \/ resumeSync /\ UNCHANGED <<retryVars, claimVars, classifierVars>>
    \/ stop /\ UNCHANGED <<retryVars, claimVars, classifierVars>>
    \/ DrainProceeds

SpecDrain == InitDrain /\ [][NextDrain]_vars

\* every remote call and every database call is answered
SpecDrainFair == InitDrain /\ [][NextDrain]_vars /\ WF_vars(DrainProceeds)

\* a drain of one item that has failed four times, with a service that gives
\* up to RetryFaults faulty answers
InitDrainRetries ==
    /\ syncQueue = {r \in LeftRows(1, "m1", {MaxRetryCount - 1}, {}) : r.status = "pending"}
    /\ nextId = 2
    /\ now = MaxNow
    /\ queueCall = [op |-> "none"]
    /\ ManagerStarts(RetryFaults)
    /\ ManagerRateLimiter /\ RetryIdle /\ ClaimIdle /\ ClassifyIdle

\* every remote call and every database call is answered
SpecDrainRetriesFair == InitDrainRetries /\ [][NextDrain]_vars /\ WF_vars(DrainProceeds)

\* a run of one of the two drivers
InitPools == InitDrain \/ InitClassify

NextPools == NextDrain \/ NextClassify

SpecPools == InitPools /\ [][NextPools]_vars

(***************************************************************************)
(* Properties of the AdaptiveRateLimiter                                   *)
(***************************************************************************)
ErrorCalls == {"recordError(true)", "recordError(false)"}

\* the limiter is in the range its invariant promises
InRange == minConcurrency <= currentConcurrency /\ currentConcurrency <= maxConcurrency

\* C1: in every reachable state, right after construction with any options
\* and after any sequence of calls, minConcurrency <= getConcurrency() <=
\* maxConcurrency.
C1_ConcurrencyWithinBounds ==
    minConcurrency <= getConcurrency /\ getConcurrency <= maxConcurrency

\* C2: in an uninterrupted run of recordError(false) calls (starting from a
\* clean error streak) the concurrency is reduced by 5, clamped to min, at
\* the 3rd, 6th, 9th ... call only; the other calls of the run, the 4th and
\* 5th among them, leave it unchanged.
C2_CutbackResetsStreak ==
    [][(LastCall' = "recordError(false)" /\ errorRun' >= 1) =>
          IF errorRun' % 3 = 0
          THEN currentConcurrency' = Max(currentConcurrency - 5, minConcurrency)
          ELSE currentConcurrency' = currentConcurrency]_vars

\* C3: one recordError(true) sets the concurrency to
\* max(floor(C/2), minConcurrency), whatever the counters are.
C3_RateLimitHalves ==
    [][LastCall' = "recordError(true)" =>
          currentConcurrency' = Max(currentConcurrency \div 2, minConcurrency)]_vars

\* C3 witness: a rate-limit error arrived in the middle of an error streak and
\* halved a concurrency that was inside [min, max]
C3_Witness ==
    /\ LastCall = "recordError(true)"
    /\ consecutiveErrors = 2
    /\ maxConcurrency = 23
    /\ currentConcurrency = 11

\* C4 as stated: recordSuccess changes the concurrency only at the
\* successThreshold-th success since the last error or increase; that success
\* raises it by exactly 5 capped at max and resets consecutiveSuccesses to 0,
\* so consecutiveSuccesses < successThreshold after every recordSuccess.
C4_Original ==
    [][(LastCall' = "recordSuccess" /\ InRange) =>
          /\ (successRun + 1 < successThreshold =>
                 currentConcurrency' = currentConcurrency)
          /\ (currentConcurrency' # currentConcurrency =>
                 successRun + 1 = successThreshold)
          /\ (successRun + 1 = successThreshold =>
                 /\ currentConcurrency' = Min(currentConcurrency + 5, maxConcurrency)
                 /\ consecutiveSuccesses' = 0)
          /\ consecutiveSuccesses' < successThreshold]_vars

\* C4 amended: as C4, except that the counter is reset only when the
\* concurrency was below maxConcurrency; at or above maxConcurrency a
\* recordSuccess leaves the concurrency alone and keeps counting.
C4_GrowthNeedsSustainedSuccess ==
    [][LastCall' = "recordSuccess" =>
          /\ (successRun + 1 < successThreshold =>
                 currentConcurrency' = currentConcurrency)
          /\ (currentConcurrency' # currentConcurrency =>
                 /\ successRun + 1 = successThreshold
                 /\ currentConcurrency < maxConcurrency)
          /\ ((successRun + 1 = successThreshold /\ currentConcurrency < maxConcurrency) =>
                 /\ currentConcurrency' = Min(currentConcurrency + 5, maxConcurrency)
                 /\ consecutiveSuccesses' = 0)
          /\ (currentConcurrency < maxConcurrency =>
                 consecutiveSuccesses' < successThreshold)
          /\ (currentConcurrency >= maxConcurrency =>
                 /\ currentConcurrency' = currentConcurrency
                 /\ consecutiveSuccesses' = consecutiveSuccesses + 1)]_vars

\* C4 witness: the threshold-reaching success raised the concurrency up to
\* the cap, by less than the step of 5
C4_Witness ==
    /\ LastCall = "recordSuccess"
    /\ Len(calls) = 3
    /\ calls[1] = "recordSuccess" /\ calls[2] = "recordSuccess"
    /\ successThreshold = 3
    /\ consecutiveSuccesses = 0
    /\ maxConcurrency = 10
    /\ currentConcurrency = 10

\* C5: a recordError(false) changes the concurrency only if the two calls
\* immediately before it were recordError calls too; a recordSuccess in
\* between breaks the streak.
C5_SuccessBreaksErrorStreak ==
    [][(LastCall' = "recordError(false)" /\ currentConcurrency' # currentConcurrency) =>
          /\ Len(calls) >= 2
          /\ calls[Len(calls)] \in ErrorCalls
          /\ calls[Len(calls) - 1] \in ErrorCalls]_vars

\* C5 witness: error, error, success, error, error, and the concurrency is
\* still the initial one
C5_Witness ==
    /\ calls = <<"recordError(false)", "recordError(false)", "recordSuccess",
                 "recordError(false)", "recordError(false)">>
    /\ consecutiveErrors = 2
    /\ currentConcurrency = maxConcurrency

(***************************************************************************)
(* Properties of withRetry                                                 *)
(***************************************************************************)
\* the isRetryable option accepts the error (and does not throw on it)
AcceptedForRetry(e) ==
    /\ ~isRetryableThrows(options.isRetryable, e)
    /\ isRetryable(options.isRetryable, e)

\* C6: with maxRetries = R the operation is invoked at most R+1 times; a call
\* that resolved stopped at the first attempt that succeeded, and a call whose
\* attempts all failed with a retryable error rejected after exactly R+1
\* invocations.
C6_RetryBound ==
    /\ fnCalls <= options.maxRetries + 1
    /\ (retryPc = "resolved" =>
           /\ fnCalls = Len(thrown) + 1
           /\ settled[1].attempts = fnCalls)
    /\ (retryPc = "rejected" =>
           /\ fnCalls = Len(thrown)
           /\ ((\A i \in 1 .. Len(thrown) : AcceptedForRetry(thrown[i])) =>
                  fnCalls = options.maxRetries + 1))

\* C6 witness: every one of the R+1 = 3 attempts failed with a retryable
\* error of the default predicate, and the call rejected
C6_Witness ==
    /\ retryPc = "rejected"
    /\ options.maxRetries = 2
    /\ options.isRetryable = "default"
    /\ fnCalls = 3
    /\ \A i \in 1 .. Len(thrown) : AcceptedForRetry(thrown[i])

\* C7: when withRetry gives up it rejects with exactly the value the last
\* invocation threw, for every value (Error objects, plain objects, null,
\* undefined); an error that is not retryable is propagated with no onRetry
\* call and no sleep for it, after a single invocation when it is the first.
C7_PropagatesLastError ==
    retryPc = "rejected" =>
        /\ settled = <<thrown[Len(thrown)]>>
        /\ Len(onRetryLog) = Len(thrown) - 1
        /\ Len(sleeps) = Len(thrown) - 1
        /\ (~AcceptedForRetry(thrown[1]) =>
               fnCalls = 1 /\ onRetryLog = <<>> /\ sleeps = <<>>)

(***************************************************************************)
(* Properties of the sync queue                                            *)
(***************************************************************************)
\* C8: markSyncItemFailed increments the row's retryCount by one; the 1st to
\* 4th failure of an item leaves its row in the queue, pending, with the new
\* retryCount and the error recorded, and returns deleted = false; the 5th
\* failure deletes the row and returns deleted = true with retryCount = 5.
C8_RetryThenDrop ==
    [][\A r \in syncQueue :
          (/\ queueCall'.op = "markSyncItemFailed"
           /\ queueCall'.gmailId = r.gmailId
           /\ queueCall'.userId = r.userId) =>
              LET nth == r.failures + 1
                  after == RowsOf(syncQueue', r.gmailId, r.userId)
              IN  /\ nth \in 1 .. 5
                  /\ queueCall'.ret.retryCount = r.retryCount + 1
                  /\ queueCall'.ret.retryCount = nth
                  /\ (nth <= 4 =>
                         /\ queueCall'.ret.deleted = FALSE
                         /\ \E q \in after :
                               /\ q.id = r.id
                               /\ q.status = "pending"
                               /\ q.retryCount = nth
                               /\ q.lastError = queueCall'.error)
                  /\ (nth = 5 =>
                         /\ queueCall'.ret = [deleted |-> TRUE, retryCount |-> 5]
                         /\ after = {})]_vars

\* C8 witness: the 5th failure of an item has just dropped it
C8_Witness ==
    /\ queueCall.op = "markSyncItemFailed"
    /\ queueCall.ret = [deleted |-> TRUE, retryCount |-> 5]
    /\ RowsOf(syncQueue, queueCall.gmailId, queueCall.userId) = {}

\* C9: addToSyncQueue is idempotent per (gmailId, userId): the queue holds one
\* row per key, the call returns the number of rows it inserted, which is the
\* number of distinct ids that had no row, every row that existed is left
\* exactly as it was, whatever its status, and the new rows are pending with
\* retryCount 0.
C9_EnqueueIdempotent ==
    [][queueCall'.op = "addToSyncQueue" =>
          LET absent == {g \in queueCall'.gmailIds :
                            RowsOf(syncQueue, g, queueCall'.userId) = {}}
          IN  /\ queueCall'.ret = Cardinality(absent)
              /\ queueCall'.ret = Cardinality(syncQueue') - Cardinality(syncQueue)
              /\ syncQueue \subseteq syncQueue'
              /\ \A g \in queueCall'.gmailIds :
                    Cardinality(RowsOf(syncQueue', g, queueCall'.userId)) = 1
              /\ \A r \in syncQueue' \ syncQueue :
                    /\ r.gmailId \in absent
                    /\ r.userId = queueCall'.userId
                    /\ r.status = "pending"
                    /\ r.retryCount = 0
                    /\ r.lastError = NullText]_vars

\* C9 witness: an enqueue of two ids, one of them already done after two
\* failures, added one row and left the old row alone
C9_Witness ==
    /\ queueCall.op = "addToSyncQueue"
    /\ queueCall.gmailIds = {"m1", "m2"}
    /\ queueCall.ret = 1
    /\ \E r \in syncQueue :
          r.gmailId = "m1" /\ r.status = "synced" /\ r.retryCount = 2
    /\ \E r \in syncQueue :
          r.gmailId = "m2" /\ r.status = "pending" /\ r.retryCount = 0

\* C10: resetStuckSyncingItems moves to pending exactly the owner's syncing
\* rows whose updatedAt is more than 5 minutes old, and returns their number;
\* every other row is left exactly as it was, and the rows it resets keep
\* their retryCount and lastError.
C10_StaleReclaim ==
    [][queueCall'.op = "resetStuckSyncingItems" =>
          LET stale == {r \in syncQueue : /\ r.userId = queueCall'.userId
                                          /\ r.status = "syncing"
                                          /\ now - r.updatedAt > 5}
          IN  /\ queueCall'.ret = Cardinality(stale)
              /\ Cardinality(syncQueue') = Cardinality(syncQueue)
              /\ \A r \in syncQueue \ stale : r \in syncQueue'
              /\ \A r \in stale :
                    \E q \in syncQueue' :
                       /\ q.id = r.id
                       /\ q.gmailId = r.gmailId /\ q.userId = r.userId
                       /\ q.status = "pending"
                       /\ q.retryCount = r.retryCount
                       /\ q.lastError = r.lastError]_vars

\* C10 witness: a reset has just reclaimed one stale row of its owner, while
\* an equally stale syncing row of the other owner is still syncing
C10_Witness ==
    /\ queueCall.op = "resetStuckSyncingItems"
    /\ queueCall.ret = 1
    /\ \E r \in syncQueue :
          /\ r.userId = queueCall.userId
          /\ r.status = "pending"
          /\ r.updatedAt = now
    /\ \E r \in syncQueue :
          /\ r.userId # queueCall.userId
          /\ r.status = "syncing"
          /\ now - r.updatedAt > 5

(***************************************************************************)
(* Properties of the batch claim                                           *)
(***************************************************************************)
\* the ids of the rows a getPendingSyncItems step returned
Returned == {r \in syncQueue : r.id \in queueCall'.ret}

\* C11: a claim (getPendingSyncItems followed by markSyncItemSyncing) returns
\* at most `limit` rows, all of them pending rows of the owner, the oldest
\* ones by creation time, and as many as the limit and the pending rows
\* allow; markSyncItemSyncing turns exactly those rows to syncing and changes
\* no other row.  Rows that are syncing or synced are never returned.
C11_ClaimOldestPending ==
    [][/\ queueCall'.op = "getPendingSyncItems" =>
             LET pending == {r \in syncQueue : /\ r.userId = queueCall'.userId
                                                /\ r.status = "pending"}
             IN  /\ Cardinality(queueCall'.ret) <= queueCall'.limit
                 /\ Cardinality(queueCall'.ret) =
                       Min(queueCall'.limit, Cardinality(pending))
                 /\ queueCall'.ret \subseteq {r.id : r \in pending}
                 /\ \A r \in Returned, q \in pending \ Returned :
                       r.createdAt <= q.createdAt
                 /\ \A r \in syncQueue :
                       r.status \in {"syncing", "synced"} => r.id \notin queueCall'.ret
       /\ \A c \in Callers :
             (callers[c].pc = "selected" /\ callers'[c].pc = "claimed") =>
                 LET ids == {i.id : i \in callers[c].items}
                 IN  /\ {r.id : r \in syncQueue'} = {r.id : r \in syncQueue}
                     /\ \A r \in syncQueue' :
                           IF r.id \in ids THEN r.status = "syncing"
                                           ELSE r \in syncQueue]_vars

\* C11 witness: with two pending rows of the owner, created at different
\* times, a claim of limit 1 took the older one, which is now syncing while
\* the younger one is still pending
C11_Witness ==
    \E c \in Callers :
       /\ callers[c].pc = "claimed"
       /\ Cardinality(callers[c].items) = 1
       /\ \E r, q \in syncQueue :
             /\ r.userId = "u1" /\ q.userId = "u1"
             /\ r.id \in {i.id : i \in callers[c].items}
             /\ r.status = "syncing"
             /\ q.status = "pending"
             /\ r.createdAt < q.createdAt

\* C12: under every interleaving of two callers' getPendingSyncItems and
\* markSyncItemSyncing steps, no row is held as claimed by both callers.
C12_NoRowClaimedTwice ==
    \A c1, c2 \in Callers :
       (c1 # c2 /\ callers[c1].pc = "claimed" /\ callers[c2].pc = "claimed") =>
           callers[c1].items \cap callers[c2].items = {}

(***************************************************************************)
(* Properties of classifyEmailsParallel                                    *)
(***************************************************************************)
\* C17: classifyEmailsParallel returns an outcome for every item even when
\* the classification service never answers, because every attempt is
\* raced against a timer whose timeout error is retried.
C17_ReturnsWhenServiceSilent == <>(classifyPc = "returned")

\* the result the claims describe for the answer a of email e
OutcomeFor(e, a) ==
    IF a.kind = "error" \/ a.classifierId = NullId \/ a.classifierId \notin classifierIds
    THEN [emailId |-> e, classifierId |-> NullId, confidence |-> 0]
    ELSE [emailId |-> e, classifierId |-> a.classifierId,
          confidence |-> IF a.confidence > One THEN One
                         ELSE IF a.confidence < 0 THEN 0 ELSE a.confidence]

\* C18: for non-empty emails and classifiers the call returns exactly one
\* outcome per input item, in any order; an item whose classification
\* failed for good has classifierId null and confidence 0, and every other
\* item has the outcome of its own answer.
C18_OneOutcomePerItem ==
    (classifyPc = "returned" /\ Len(emails) > 0 /\ classifierIds # {}) =>
        /\ Len(results) = Len(emails)
        /\ \A i \in DOMAIN emails : \E j \in DOMAIN results : results[j].emailId = emails[i]
        /\ \A j \in DOMAIN results :
              /\ answers[results[j].emailId].kind # "none"
              /\ answers[results[j].emailId].kind = "error" =>
                    results[j].classifierId = NullId /\ results[j].confidence = 0
              /\ results[j] = OutcomeFor(results[j].emailId, answers[results[j].emailId])

\* three items are returned, one failed for good and one matched
C18_Witness ==
    /\ classifyPc = "returned"
    /\ Len(emails) = 3
    /\ Len(results) = 3
    /\ \E e \in EmailIds : answers[e].kind = "error"
    /\ \E j \in DOMAIN results : results[j].classifierId = "c1"
    /\ results[1].emailId # emails[1]

\* C19: every outcome's classifierId is null or one of the supplied
\* classifier ids; an answered id that is null or not supplied gives
\* classifierId null and confidence 0, whatever the answered confidence.
C19_ClassifierIdValidated ==
    \A j \in DOMAIN results :
        LET a == answers[results[j].emailId]
        IN  /\ results[j].classifierId = NullId \/ results[j].classifierId \in classifierIds
            /\ (a.kind = "object" /\ (a.classifierId = NullId \/ a.classifierId \notin classifierIds))
                   => results[j].classifierId = NullId /\ results[j].confidence = 0

\* an answered id that was not supplied, with a confidence above 0
C19_Witness ==
    \E j \in DOMAIN results :
        LET a == answers[results[j].emailId]
        IN  /\ a.kind = "object"
            /\ a.classifierId = "c2"
            /\ a.confidence > 0
            /\ classifierIds = {"c1"}
            /\ results[j].classifierId = NullId

\* C20: every outcome's confidence lies in [0, 1]; with a valid classifier
\* id it is the answered confidence, except that a value above 1 gives 1
\* and a value below 0 gives 0.
C20_ConfidenceClamped ==
    \A j \in DOMAIN results :
        LET a == answers[results[j].emailId]
        IN  /\ 0 <= results[j].confidence /\ results[j].confidence <= One
            /\ (a.kind = "object" /\ results[j].classifierId # NullId) =>
                  /\ a.confidence > One => results[j].confidence = One
                  /\ a.confidence < 0 => results[j].confidence = 0
                  /\ (0 <= a.confidence /\ a.confidence <= One) =>
                        results[j].confidence = a.confidence

\* answers above 1, below 0 and inside the range, all with a valid id
C20_Witness ==
    /\ \A j \in DOMAIN results : results[j].classifierId = "c1"
    /\ \E j \in DOMAIN results : answers[results[j].emailId].confidence > One
    /\ \E j \in DOMAIN results : answers[results[j].emailId].confidence < 0
    /\ \E j \in DOMAIN results : answers[results[j].emailId].confidence = 90

(***************************************************************************)
(* Properties of the BackgroundSyncManager and of the worker pools         *)
(***************************************************************************)
\* a resumeSync, the only run of its manager, has run to its end and stop()
\* was not called while it was running
ResumedToCompletion ==
    /\ Len(runs) = 1
    /\ runs[1].kind = "resumeSync"
    /\ runs[1].pc \in {"complete", "returned"}
    /\ ~runs[1].stopped

RunPc(r) == IF r \in DOMAIN runs THEN runs[r].pc ELSE "none"

C15_CooperativeStop ==
    [][/\ \A f \in fetches' \ fetches : f.attempts = 1 => ~runs[f.run].stopped
       /\ \A r \in DOMAIN runs :
             runs[r].stopped =>
                /\ runs'[r].pages = runs[r].pages \/ runs'[r].pc # "listing"
                /\ ~(runs[r].pc = "mark" /\ runs'[r].pc # "mark")
       /\ \A f \in fetches :
             (\A g \in fetches' : g.run # f.run \/ g.gmailId # f.gmailId) =>
                queueCall'.op \in {"markSyncItemSynced", "markSyncItemFailed"}]_vars

\* the tasks of classifyEmailsParallel's pool
ClassifierTasks == DOMAIN inProgress

\* C16: in the pool of a classifyEmailsParallel call and of each drain run,
\* tasks are started only up to the limit read after the completion that
\* was observed last, the pool is filled up to that limit while tasks wait,
\* and the tasks in flight never exceed maxConcurrency.
C16_PoolBounded ==
    [][/\ ClassifierTasks' \ ClassifierTasks # {} =>
             Cardinality(ClassifierTasks') <= currentConcurrency'
       /\ (Len(results') > Len(results) /\ Len(emailQueue') > 0) =>
             Cardinality(ClassifierTasks') >= currentConcurrency'
       /\ Cardinality(ClassifierTasks') <= maxConcurrency'
       /\ \A r \in DOMAIN runs :
             /\ runs'[r].inProgress \ runs[r].inProgress # {} =>
                   Cardinality(runs'[r].inProgress) <= currentConcurrency'
             /\ (runs[r].inProgress \ runs'[r].inProgress # {} /\ Len(runs'[r].queue) > 0) =>
                   Cardinality(runs'[r].inProgress) >= currentConcurrency'
             /\ Cardinality(runs'[r].inProgress) <= maxConcurrency']_vars

\* after a cutback and a completion a task still waits, because the pool
\* is not below the reduced limit
C16_Witness ==
    /\ classifyPc = "running"
    /\ Len(results) > 0
    /\ Len(emailQueue) > 0
    /\ currentConcurrency < maxConcurrency
    /\ Cardinality(ClassifierTasks) = currentConcurrency

(***************************************************************************)
(* Properties of the callbacks of classifyEmailsParallel                   *)
(***************************************************************************)
\* the statuses reported for email e, oldest first
StatusesOf(e) ==
    LET IsOf(event) == event[1] = e
        own == SelectSeq(emailProgress, IsOf)
    IN  [i \in DOMAIN own |-> own[i][2]]

\* C21: the statuses reported for an item are pending, then classifying
\* once or more, then one terminal status after which nothing follows:
\* completed when the item was classified, failed when its classification
\* failed for good; every pending event precedes every classifying event.
C21_ProgressSequence ==
    /\ \A e \in EmailIds :
          LET statuses == StatusesOf(e)
          IN  /\ \A i \in DOMAIN statuses :
                    /\ (i = 1) <=> (statuses[i] = "pending")
                    /\ statuses[i] \in {"completed", "failed"} => (i = Len(statuses) /\ i >= 3)
                    /\ statuses[i] \in {"pending", "classifying", "completed", "failed"}
              /\ answers[e].kind = "object" =>
                    (Len(statuses) >= 3 /\ statuses[Len(statuses)] = "completed")
              /\ answers[e].kind = "error" =>
                    (Len(statuses) >= 3 /\ statuses[Len(statuses)] = "failed")
    /\ \A i, j \in DOMAIN emailProgress :
          (i < j /\ emailProgress[j][2] = "pending") => emailProgress[i][2] = "pending"

\* C22: onBatchComplete is called once per recorded outcome, the k-th call
\* with (k, N) when k outcomes are recorded, and the call has returned only
\* after the call with (N, N).
C22_BatchCompleteCounts ==
    /\ batchComplete = [k \in 1 .. Len(results) |-> <<k, Len(emails)>>]
    /\ (classifyPc = "returned" /\ limiters > 0) =>
          /\ Len(batchComplete) = Len(emails)
          /\ batchComplete[Len(emails)] = <<Len(emails), Len(emails)>>

\* a batch of three has returned after the calls (1, 3), (2, 3), (3, 3)
C22_Witness ==
    /\ classifyPc = "returned"
    /\ batchComplete = <<<<1, 3>>, <<2, 3>>, <<3, 3>>>>

\* C23: with an empty email list or an empty classifier list the call
\* returns an empty result, creates no rate limiter, calls the service for
\* no email and calls neither onEmailProgress nor onBatchComplete.
C23_EmptyInputs ==
    (classifyPc = "returned" /\ (Len(emails) = 0 \/ classifierIds = {})) =>
        /\ results = <<>>
        /\ limiters = 0
        /\ generated = {}
        /\ emailProgress = <<>>
        /\ batchComplete = <<>>

\* the call has returned for emails without classifiers
C23_Witness ==
    /\ classifyPc = "returned"
    /\ Len(emails) > 0
    /\ classifierIds = {}
    /\ results = <<>>

\* the scenario has played: d1 claimed a batch of two after the enqueue, then
\* a was marked synced and b failed once
ScenarioPlayed ==
    /\ callers["d1"].pc = "claimed"
    /\ IsSynced("a", "u1")
    /\ \E r \in RowsOf(syncQueue, "b", "u1") : r.failures = 1

StatsRead(userId) == queueCall.op = "getSyncQueueStats" /\ queueCall.userId = userId

ScenarioCounts ==
    /\ queueCall.ret.pending = 2
    /\ queueCall.ret.syncing = 0
    /\ queueCall.ret.synced = 1
    /\ \A r \in RowsOf(syncQueue, "b", "u1") : r.retryCount = 1 /\ r.status = "pending"
    /\ \A r \in RowsOf(syncQueue, "c", "u1") : r.status = "pending"

\* C24 as stated: statistics read after the scenario (enqueue a, b, c, a claim
\* of two, a marked synced, b failed once) report pending = 2, syncing = 0 and
\* synced = 1, with b.retryCount = 1, whichever two rows the claim took
C24_ScenarioCountsAnyClaim ==
    (ScenarioPlayed /\ StatsRead("u1")) => ScenarioCounts

\* C24 amended: getSyncQueueStats returns for each status the number of the
\* owner's rows in that status and total is their sum; statistics read after
\* the scenario report pending = 2 (b and c), syncing = 0, synced = 1 (a) and
\* total = 3, with b.retryCount = 1, when the claim of two took a and b
C24_StatsCounts ==
    /\ \A userId \in Users :
          StatsRead(userId) =>
             /\ \A status \in {"failed", "pending", "synced", "syncing"} :
                   queueCall.ret[status] =
                      Cardinality({r \in syncQueue : r.userId = userId /\ r.status = status})
             /\ queueCall.ret.total = queueCall.ret.failed + queueCall.ret.pending
                                         + queueCall.ret.synced + queueCall.ret.syncing
    /\ (/\ ScenarioPlayed
        /\ StatsRead("u1")
        /\ {i.gmailId : i \in callers["d1"].items} = {"a", "b"})
          => (ScenarioCounts /\ queueCall.ret.total = 3 /\ queueCall.ret.failed = 0)

C24_Witness ==
    /\ ScenarioPlayed
    /\ StatsRead("u1")
    /\ {i.gmailId : i \in callers["d1"].items} = {"a", "b"}
    /\ queueCall.ret = [failed |-> 0, pending |-> 2, synced |-> 1, syncing |-> 0, total |-> 3]
    /\ \E r \in syncQueue : r.userId = "u2"

\* C27: from any reachable state, reset() sets currentConcurrency to
\* maxConcurrency and both counters to 0 and leaves the options alone, which
\* is the state of a limiter constructed with initialConcurrency = max
C27_ResetRestoresFresh ==
    [][calls' = Remember("reset") =>
          /\ currentConcurrency' = maxConcurrency
          /\ consecutiveSuccesses' = 0
          /\ consecutiveErrors' = 0
          /\ maxConcurrency' = maxConcurrency
          /\ minConcurrency' = minConcurrency
          /\ successThreshold' = successThreshold]_vars

\* reset() was called right after two errors, the second a rate limit that
\* had cut the concurrency
C27_Witness ==
    /\ Len(calls) >= 3
    /\ calls[Len(calls)] = "reset"
    /\ calls[Len(calls) - 1] = "recordError(true)"
    /\ calls[Len(calls) - 2] = "recordError(false)"
    /\ currentConcurrency = maxConcurrency
    /\ consecutiveErrors = 0

\* C26: isRateLimitError is total: on no value the default isRetryable hands
\* it does it throw, and it returns false for null, for undefined and for an
\* object whose code is none of 429, 403, 503 and that carries no rate-limit
\* phrase
C26_IsRateLimitErrorTotal ==
    \A i \in DOMAIN thrown :
       (options.isRetryable = "default" /\ RetriesLeft(i)) =>
          /\ ~isRateLimitErrorThrows(thrown[i])
          /\ ((/\ thrown[i].kind # "Error"
               /\ thrown[i].code \notin RATE_LIMIT_CODES) => ~isRateLimitError(thrown[i]))

\* initialBackoff * multiplier^(k-1), cut at maxBackoff
ScheduledDelay(k) ==
    LET exponential == options.initialBackoffMs * (options.backoffMultiplier ^ (k - 1))
    IN  IF exponential < options.maxBackoffMs THEN exponential ELSE options.maxBackoffMs

RECURSIVE DelaysOnRetry(_)
DelaysOnRetry(n) == IF n = 0 THEN 0 ELSE DelaysOnRetry(n - 1) + onRetryLog[n][2]

\* C25: the delay before the k-th retry, its jitter taken off, is
\* min(initialBackoff * multiplier^(k-1), maxBackoff); for a multiplier >= 1
\* these delays never decrease from one retry to the next and never exceed
\* maxBackoff; the totalDelayMs withRetry returns is the sum of the delays
\* passed to onRetry, 0 when the first attempt succeeds
C25_BackoffSchedule ==
    /\ \A k \in DOMAIN onRetryLog :
          /\ onRetryLog[k][1] = k
          /\ \E jitter \in 0 .. options.jitterMs :
                /\ (jitter < options.jitterMs \/ options.jitterMs = 0)
                /\ onRetryLog[k][2] - jitter = ScheduledDelay(k)
          /\ sleeps[k] = onRetryLog[k][2]
          /\ ScheduledDelay(k) <= options.maxBackoffMs
          /\ (k > 1 /\ options.backoffMultiplier >= 1) =>
                ScheduledDelay(k - 1) <= ScheduledDelay(k)
    /\ totalDelayMs = DelaysOnRetry(Len(onRetryLog))
    /\ (retryPc = "resolved" =>
           /\ settled[1].totalDelayMs = DelaysOnRetry(Len(onRetryLog))
           /\ (fnCalls = 1 => settled[1].totalDelayMs = 0))

\* three retries without jitter, with delays 1, 2 and the cap 3 in place of
\* 4, then success: totalDelayMs = 6
C25_Witness ==
    /\ retryPc = "resolved"
    /\ options.jitterMs = 0
    /\ options.initialBackoffMs = 1
    /\ options.backoffMultiplier = 2
    /\ Len(onRetryLog) = 3
    /\ onRetryLog[3][2] = options.maxBackoffMs
    /\ settled[1].totalDelayMs = 6
    /\ settled[1].attempts = 4

\* C28: with the default dependencies no more than 5 classification calls
\* are in flight at any time of a classifyEmailsParallel run
C28_FiveInFlight == Cardinality(DOMAIN inProgress) <= 5

\* every call made on the manager has ended
RunsEnded == \A r \in DOMAIN runs : RunPc(r) \in {"complete", "returned"}

\* C29: once the runs have reported complete, every item that is done in the
\* queue has its record in the store, also when a run was ended by stop()
\* while fetches were in flight
C29_DoneItemsPersisted ==
    RunsEnded =>
       \A r \in syncQueue :
          (r.userId = ManagerUser /\ r.status = "synced") => r.gmailId \in store

\* the runs that execute the listing loop or the drain loop
ActiveRuns == {r \in DOMAIN runs : RunPc(r) \in {"listing", "select", "mark", "pool"}}

\* C30: at most one listing or drain loop executes at a time on a manager,
\* for every interleaving of startSync and resumeSync calls
C30_OneActiveRun == Cardinality(ActiveRuns) <= 1

\* the two calls made last were both recordError(false)
TwoNonRateLimitErrorsBefore ==
    /\ Len(calls) >= 2
    /\ calls[Len(calls)] = "recordError(false)"
    /\ calls[Len(calls) - 1] = "recordError(false)"

\* C32: a recordError(false) lowers the concurrency only when it is the third
\* of three consecutive non-rate-limit errors; one that follows rate-limit
\* errors (recordError(true), recordError(true), recordError(false)) leaves
\* the concurrency unchanged
C32_OnlyNonRateLimitErrorsCount ==
    [][(calls' = Remember("recordError(false)") /\ ~TwoNonRateLimitErrorsBefore) =>
          currentConcurrency' = currentConcurrency]_vars

\* C38: after any sequence of addToSyncQueue, markSyncItemSyncing,
\* markSyncItemSynced, markSyncItemFailed, resetStuckSyncingItems and
\* deleteSyncedItems calls every row of the queue has a retryCount in 0..4 and
\* a status among pending, syncing and synced; no row has status failed and
\* getSyncQueueStats reports failed = 0
C38_QueueRowInvariant ==
    /\ \A r \in syncQueue :
          /\ r.retryCount \in 0 .. 4
          /\ r.status \in {"pending", "syncing", "synced"}
    /\ \A userId \in Users : getSyncQueueStats(syncQueue, userId).failed = 0

\* one item has just been deleted at its fifth failure while the other item
\* stays in the queue after four failures
C38_Witness ==
    /\ queueCall.op = "markSyncItemFailed"
    /\ queueCall.ret.deleted
    /\ \E r \in syncQueue : r.retryCount = 4 /\ r.failures = 4

\* C36: onRetry is called exactly once for every failed attempt that is
\* retried, after that failure and before the sleep and the next invocation,
\* with the attempt numbers 1, 2, 3, ... in order and the error of that
\* attempt; it is not called for the final failure nor after a success, and
\* the attempts withRetry returns is the number of onRetry calls plus 1
C36_OnRetryPerRetriedFailure ==
    /\ \A k \in DOMAIN onRetryLog :
          /\ onRetryLog[k][1] = k
          /\ onRetryLog[k][3] = thrown[k]
    /\ Len(sleeps) = Len(onRetryLog)
    /\ (retryPc = "start" => onRetryLog = <<>>)
    /\ (retryPc = "sleeping" => Len(onRetryLog) = fnCalls /\ Len(thrown) = fnCalls)
    /\ (retryPc = "awaitFn" => Len(onRetryLog) = fnCalls - 1 /\ Len(thrown) = fnCalls - 1)
    /\ (retryPc = "rejected" => Len(onRetryLog) = Len(thrown) - 1 /\ Len(thrown) = fnCalls)
    /\ (retryPc = "resolved" =>
           /\ Len(onRetryLog) = Len(thrown)
           /\ settled[1].attempts = Len(onRetryLog) + 1
           /\ fnCalls = Len(onRetryLog) + 1)

\* two failures were retried and the third attempt succeeded: onRetry was
\* called with attempts 1 and 2
C36_Witness ==
    /\ retryPc = "resolved"
    /\ settled[1].attempts = 3
    /\ Len(onRetryLog) = 2
    /\ onRetryLog[1][1] = 1
    /\ onRetryLog[2][1] = 2
    /\ onRetryLog[1][3] # onRetryLog[2][3]

\* the limiter is as it was
LimiterUntouched ==
    /\ currentConcurrency' = currentConcurrency
    /\ consecutiveSuccesses' = consecutiveSuccesses
    /\ consecutiveErrors' = consecutiveErrors

\* the limiter has taken one recordSuccess call
OneSuccessRecorded ==
    /\ consecutiveErrors' = 0
    /\ \/ consecutiveSuccesses' = consecutiveSuccesses + 1 /\ currentConcurrency' = currentConcurrency
       \/ consecutiveSuccesses' = 0 /\ currentConcurrency' > currentConcurrency

\* the limiter has taken one recordError call
OneErrorRecorded ==
    /\ consecutiveErrors' = consecutiveErrors + 1
    /\ consecutiveSuccesses' = 0
    /\ currentConcurrency' <= currentConcurrency

\* C35: the service is called at most 4 times per item; every retry of an
\* item feeds recordError exactly once; an item whose call succeeds feeds
\* recordSuccess when it was its first attempt and leaves the limiter alone
\* otherwise; an item whose last attempt fails gets the no-match outcome
C35_FourAttemptsPerItem ==
    [][\A e \in DOMAIN inProgress :
          /\ inProgress[e] \in 1 .. 4
          /\ (e \in DOMAIN inProgress' /\ inProgress'[e] # inProgress[e]) =>
                /\ inProgress'[e] = inProgress[e] + 1
                /\ inProgress'[e] <= 4
                /\ OneErrorRecorded
          /\ (e \notin DOMAIN inProgress' /\ answers'[e].kind = "object") =>
                IF inProgress[e] = 1 THEN OneSuccessRecorded ELSE LimiterUntouched
          /\ (e \notin DOMAIN inProgress' /\ answers'[e].kind # "object") =>
                /\ results'[Len(results')] = NoMatch(e)
                /\ LimiterUntouched]_vars

\* the fourth call for an item is in flight after three recorded errors,
\* while another item has been matched
C35_Witness ==
    /\ \E e \in DOMAIN inProgress : inProgress[e] = 4
    /\ consecutiveErrors >= 3
    /\ \E i \in DOMAIN results : results[i].classifierId = "c1"

\* the step in which a list request of startSync run r fails for good
ListingFailed(r) ==
    /\ runs[r].kind = "startSync"
    /\ runs[r].pc = "listing"
    /\ runs'[r].pc # "listing"
    /\ faultsLeft' # faultsLeft

\* C34: when a list request fails for good after pages were listed, every id
\* of those pages is in the queue, the error is recorded in progress.errors
\* and the same run goes on to drain the items it listed
C34_ListingFailureKeepsProgress ==
    [][\A r \in DOMAIN runs :
          ListingFailed(r) =>
             /\ \A i \in DOMAIN runs[r].messageIds :
                   RowsOf(syncQueue', runs[r].messageIds[i], ManagerUser) # {}
             /\ Len(progress'.errors) > Len(progress.errors)
             /\ (runs[r].messageIds # <<>> => runs'[r].pc = "select")]_vars

\* the ids startSync run r has listed, in the state after the step
ListedIds(r) == {runs'[r].messageIds[i] : i \in DOMAIN runs'[r].messageIds}

\* C40: in every progress event of a startSync run (the one it emits when it
\* starts and those of its catch and finally blocks when its listing ends)
\* totalQueued is at most the number of distinct ids the run has listed
C40_QueuedCountAccurate ==
    [][\A r \in DOMAIN runs' :
          (/\ runs'[r].kind = "startSync"
           /\ (r \notin DOMAIN runs \/ runs[r].pc # runs'[r].pc)) =>
              progress'.totalQueued <= Cardinality(ListedIds(r))]_vars

\* the fetch f settles in the step: its task is gone, not merely retried
Settles(f) ==
    /\ f \in fetches
    /\ \A g \in fetches' : ~(g.run = f.run /\ g.gmailId = f.gmailId)

\* C31: when the fetch of a claimed item settles, exactly one of
\* markSyncItemSynced and markSyncItemFailed is applied to the item, and the
\* item's row is still in status syncing when it is applied
C31_CompletionObservedOnce ==
    [][\A f \in fetches :
          Settles(f) =>
             /\ queueCall'.op \in {"markSyncItemSynced", "markSyncItemFailed"}
             /\ \E row \in RowsOf(syncQueue, f.gmailId, ManagerUser) :
                   row.status = "syncing"]_vars

\* the owner's rows that are in the queue before the step and not after it
RowsDropped ==
    {r \in syncQueue : r.userId = ManagerUser /\ RowsOf(syncQueue', r.gmailId, ManagerUser) = {}}

C39_CompleteIsTerminal ==
    [][\A f \in fetches :
          (runs[f.run].pc = "complete" /\ Settles(f)) =>
             /\ syncQueue' = syncQueue
             /\ progress' = progress]_vars

\* the runs whose processQueue returns in the step without a stop() call
EndsUnstopped ==
    {r \in DOMAIN runs : /\ runs[r].pc \in {"select", "mark", "pool"}
                         /\ runs'[r].pc = "complete"
                         /\ ~runs'[r].stopped}

\* no run is left in startSync or resumeSync
AllRunsEnded == \A r \in DOMAIN runs : runs[r].pc \in {"complete", "returned"}

FetchedAtMostTwentyTimes == \A g \in GmailIds : getCalls[g] <= 20

EndsWithNothingPending ==
    [][EndsUnstopped # {} =>
          \A row \in syncQueue' : row.userId = ManagerUser => row.status # "pending"]_vars

RunsEnd == <>[]AllRunsEnded

\* C37: the drain terminates: when every remote call is answered, every run
\* ends, so processQueue claims finitely often even if every fetch fails;
\* messages.get is called at most 5 x 4 = 20 times for an item between its
\* enqueue and its removal; and a drain that was not stopped ends with no
\* pending row left for the owner
C37_DrainTerminates ==
    /\ []FetchedAtMostTwentyTimes
    /\ EndsWithNothingPending
    /\ RunsEnd

====
